---- MODULE Spec2Model ----
(***************************************************************************)
(* Thumbmaker: the thumbnail-generation pipeline.                          *)
(*                                                                         *)
(* Two request handlers named POST serve generation requests: the one of   *)
(* src/unnamed/part_003 (lines 389-573, actions POST_...) and the one of   *)
(* src/app/api/generate/route.ts (lines 106-262, actions RoutePOST_...).   *)
(* Both use the storage uploader of src/lib/supabase-storage.ts and the    *)
(* persistence layer (db) of src/lib/file-storage.ts.                      *)
(*                                                                         *)
(* JavaScript strings are sequences of one-character strings, so that      *)
(* startsWith, includes, trim, length and concatenation are computed.      *)
(* Opaque identifiers are one-element sequences.  Accented letters of the  *)
(* source's messages are written without the accent.                       *)
(***************************************************************************)
EXTENDS Integers, Sequences, FiniteSets, TLC

(* ------------------------- program constants -------------------------- *)

MAX_RETRIES == 3
RETRY_DELAY_MS == 1000
MaxTextIdea == 50
MaxAdditionalPrompt == 500

(* ------------------------------ strings ------------------------------- *)

\* The JavaScript value undefined, as a value comparable with strings.
Undefined == <<"undefined">>

\* JavaScript truthiness of an optional string.
Truthy(s) == s # Undefined /\ s # <<>>

Rep(c, n) == [i \in 1..n |-> c]

StartsWith(s, p) == Len(s) >= Len(p) /\ SubSeq(s, 1, Len(p)) = p

Includes(s, p) == \E i \in 1..(Len(s) + 1) :
                    i + Len(p) - 1 <= Len(s) /\ SubSeq(s, i, i + Len(p) - 1) = p

IsSpace(c) == c \in {" ", "\t", "\n"}

RECURSIVE TrimStart(_)
TrimStart(s) == IF s # <<>> /\ IsSpace(Head(s)) THEN TrimStart(Tail(s)) ELSE s

RECURSIVE TrimEnd(_)
TrimEnd(s) == IF s # <<>> /\ IsSpace(s[Len(s)])
              THEN TrimEnd(SubSeq(s, 1, Len(s) - 1)) ELSE s

Trim(s) == TrimEnd(TrimStart(s))

HttpPrefix == <<"h", "t", "t", "p">>
DataPrefix == <<"d", "a", "t", "a", ":">>
DataImagePrefix == <<"d", "a", "t", "a", ":", "i", "m", "a", "g", "e">>
DataImageSlashPrefix == <<"d", "a", "t", "a", ":", "i", "m", "a", "g", "e", "/">>
Base64Marker == <<";", "b", "a", "s", "e", "6", "4", ",">>
PngSignature == <<"i", "V", "B", "O", "R", "w", "0", "K", "G", "g", "o">>
JpegSignature == <<"/", "9", "j", "/">>
PngDataPrefix == <<"d", "a", "t", "a", ":", "i", "m", "a", "g", "e", "/", "p", "n", "g", ";", "b", "a", "s", "e", "6", "4", ",">>
JpegDataPrefix == <<"d", "a", "t", "a", ":", "i", "m", "a", "g", "e", "/", "j", "p", "e", "g", ";", "b", "a", "s", "e", "6", "4", ",">>

\* Messages of errors: the storage client's and the code's own.
MsgServiceUnavailable == <<"S", "e", "r", "v", "i", "c", "e", " ", "u", "n", "a", "v", "a", "i", "l", "a", "b", "l", "e">>
Msg503 == <<"5", "0", "3">>
MsgNetworkError == <<"N", "e", "t", "w", "o", "r", "k", " ", "e", "r", "r", "o", "r">>
MsgServicoIndisponivel == <<"S", "e", "r", "v", "i", "c", "o", " ", "i", "n", "d", "i", "s", "p", "o", "n", "i", "v", "e", "l">>
MsgArquivoMuitoGrande == <<"A", "r", "q", "u", "i", "v", "o", " ", "m", "u", "i", "t", "o", " ", "g", "r", "a", "n", "d", "e">>


LowerLetters == {"a", "b", "c", "d", "e", "f", "g", "h", "i", "j", "k", "l", "m", "n", "o", "p", "q", "r", "s", "t", "u", "v", "w", "x", "y", "z"}
UpperLetters == {"A", "B", "C", "D", "E", "F", "G", "H", "I", "J", "K", "L", "M", "N", "O", "P", "Q", "R", "S", "T", "U", "V", "W", "X", "Y", "Z"}
Digits == {"0", "1", "2", "3", "4", "5", "6", "7", "8", "9"}
Letters == LowerLetters \cup UpperLetters
Base64Chars == Letters \cup Digits \cup {"+", "/", "="}

ToLower == "A" :> "a" @@ "B" :> "b" @@ "C" :> "c" @@ "D" :> "d" @@ "E" :> "e" @@ "F" :> "f" @@ "G" :> "g" @@ "H" :> "h" @@ "I" :> "i" @@ "J" :> "j" @@ "K" :> "k" @@ "L" :> "l" @@ "M" :> "m" @@ "N" :> "n" @@ "O" :> "o" @@ "P" :> "p" @@ "Q" :> "q" @@ "R" :> "r" @@ "S" :> "s" @@ "T" :> "t" @@ "U" :> "u" @@ "V" :> "v" @@ "W" :> "w" @@ "X" :> "x" @@ "Y" :> "y" @@ "Z" :> "z"

\* A string lower-cased: how a regular expression with the i flag compares.
Lower(s) == [i \in 1..Len(s) |-> IF s[i] \in UpperLetters THEN ToLower[s[i]] ELSE s[i]]

\* p occurs in s at position i.
At(s, i, p) == i >= 1 /\ i + Len(p) - 1 <= Len(s) /\ SubSeq(s, i, i + Len(p) - 1) = p

Min(S) == CHOOSE x \in S : \A y \in S : x <= y
Max(S) == CHOOSE x \in S : \A y \in S : x >= y

\* The last index of the longest run of characters of s, from b on, that
\* satisfy ok (b - 1 when s[b] does not): a greedy character-class repeat.
RunEnd(s, b, ok(_)) == Max({b - 1} \cup {e \in b..Len(s) : \A j \in b..e : ok(s[j])})

(* --------------------------- call outcomes ---------------------------- *)

Return(v) == [threw |-> FALSE, value |-> v, error |-> <<>>]
Throw(e) == [threw |-> TRUE, value |-> Undefined, error |-> e]

ErrApiKey == <<"OpenRouter API key not configured">>
ErrFetch == <<"fetch failed">>
ErrGenerate == <<"Failed to generate image via OpenRouter API">>
ErrNoChoices == <<"No choices returned from OpenRouter API">>
ErrExtract == <<"Could not extract image URL from OpenRouter API response">>
ErrTypeError == <<"TypeError">>

(* --------------------------- prompt composer -------------------------- *)

\* The literal parts of the template of src/unnamed/part_003:232, each one
\* element of the string.
TplHead == <<"A professional YouTube thumbnail in 1280x720 (16:9 aspect ratio) with the text \"">>
TplBody == <<"\" prominently displayed. The thumbnail features a person's face from the attached avatar photo as the main subject. You MUST use the person's face, features, and appearance from the provided avatar image to generate the thumbnail - maintain their identity, skin tone, hair style, and facial features exactly. The design follows YouTube thumbnail best practices: bold contrasting colors, clear readable text overlay, engaging facial expression, professional lighting, and eye-catching composition. ">>
TplReferences == <<"Incorporate visual elements and style inspiration from the attached reference images for consistency.">>
TplTail == <<" The overall aesthetic should be modern, high-energy, and optimized for click-through rate on YouTube.">>
TplAdditional == <<" Additional instructions: ">>

\* A variant of generateOptimizedPrompt that always writes the sentence
\* about the reference images.
generateOptimizedPrompt_AlwaysReferences(textIdea, avatarPhotoUrl, references, additionalPrompt) ==
  LET promptTemplate == TplHead \o textIdea \o TplBody \o TplReferences \o TplTail
  IN  IF Truthy(additionalPrompt) /\ Trim(additionalPrompt) # <<>>
      THEN promptTemplate \o TplAdditional \o Trim(additionalPrompt)
      ELSE promptTemplate

\* A variant of generateOptimizedPrompt that appends every additional
\* prompt that is given, blank or not.
generateOptimizedPrompt_AppendBlank(textIdea, avatarPhotoUrl, references, additionalPrompt) ==
  LET promptTemplate == TplHead \o textIdea \o TplBody
                        \o (IF Len(references) > 0 THEN TplReferences ELSE <<>>)
                        \o TplTail
  IN  IF Truthy(additionalPrompt)
      THEN promptTemplate \o TplAdditional \o Trim(additionalPrompt)
      ELSE promptTemplate

\* src/unnamed/part_003:225-240.  references is a list (the caller throws a
\* TypeError before the template is built when it is undefined).
generateOptimizedPrompt(textIdea, avatarPhotoUrl, references, additionalPrompt) ==
  LET promptTemplate == TplHead \o textIdea \o TplBody
                        \o (IF Len(references) > 0 THEN TplReferences ELSE <<>>)
                        \o TplTail
  IN  IF Truthy(additionalPrompt) /\ Trim(additionalPrompt) # <<>>
      THEN promptTemplate \o TplAdditional \o Trim(additionalPrompt)
      ELSE promptTemplate

\* The literal parts of the template of src/app/api/generate/route.ts:29.
RouteTplHead == <<"A professional YouTube thumbnail in 21:9 aspect ratio with the text \"">>
RouteTplBody == <<"\" prominently displayed. The thumbnail features a person's face from the avatar image as the main subject. The design follows YouTube thumbnail best practices: bold contrasting colors, clear readable text overlay, engaging facial expression, professional lighting, and eye-catching composition. ">>
RouteTplReferences == <<"Incorporate visual elements and style inspiration from the reference images for consistency.">>

\* src/app/api/generate/route.ts:23-32.
RouteGenerateOptimizedPrompt(textIdea, avatarPhoto, references) ==
  RouteTplHead \o textIdea \o RouteTplBody
  \o (IF Len(references) > 0 THEN RouteTplReferences ELSE <<>>)
  \o TplTail

(* -------------------- generation client: parsing --------------------- *)

\* A provider response is [kind, ok, hasChoices, choices]: kind "reject" when
\* fetch throws, else "http" with response.ok and the JSON body data.  A
\* choice is [hasMessage, hasImages, images, content]; an entry of
\* message.images is [type, url, data] with url = img.image_url?.url and
\* data = img.source?.data (Undefined when absent).

\* A variant of ImageOfEntry that does not look at the signature of the data.
ImageOfEntry_NoSniff(img) ==
  IF img.type = "image_url" /\ Truthy(img.url)
  THEN img.url
  ELSE IF img.type = "image" /\ Truthy(img.data)
       THEN IF StartsWith(img.data, DataPrefix)
            THEN img.data
            ELSE DataImageSlashPrefix \o <<"p", "n", "g">> \o Base64Marker \o img.data
       ELSE Undefined

\* src/unnamed/part_003:363-380: the image of one entry of message.images,
\* Undefined when the entry has neither known shape.
ImageOfEntry(img) ==
  IF img.type = "image_url" /\ Truthy(img.url)
  THEN img.url
  ELSE IF img.type = "image" /\ Truthy(img.data)
       THEN IF StartsWith(img.data, DataPrefix)
            THEN img.data
            ELSE LET isPng == StartsWith(img.data, PngSignature)
                     isJpeg == StartsWith(img.data, JpegSignature)
                     mimeType == IF isPng THEN <<"p", "n", "g">>
                                 ELSE IF isJpeg THEN <<"j", "p", "e", "g">>
                                 ELSE <<"p", "n", "g">>
                 IN  DataImageSlashPrefix \o mimeType \o Base64Marker \o img.data
       ELSE Undefined

\* src/unnamed/part_003:361-381: the loop over message.images.
RECURSIVE FirstImage(_)
FirstImage(images) ==
  IF images = <<>> THEN Undefined
  ELSE IF ImageOfEntry(Head(images)) # Undefined THEN ImageOfEntry(Head(images))
  ELSE FirstImage(Tail(images))

\* src/unnamed/part_003:346: Object.keys(data.choices[0].message) is evaluated
\* before the choices are checked, and throws a TypeError when choices is
\* missing or empty or the first choice has no message.
KeysOfFirstMessageThrows(resp) ==
  \/ ~resp.hasChoices
  \/ resp.choices = <<>>
  \/ ~resp.choices[1].hasMessage

\* src/unnamed/part_003:317-387: what callOpenRouterAPI makes of the response.
callOpenRouterAPI_parse(resp) ==
  IF resp.kind = "reject" THEN Throw(ErrFetch)
  ELSE IF ~resp.ok THEN Throw(ErrGenerate)
  ELSE IF KeysOfFirstMessageThrows(resp) THEN Throw(ErrTypeError)
  ELSE IF ~resp.hasChoices \/ Len(resp.choices) = 0 THEN Throw(ErrNoChoices)
  ELSE LET message == resp.choices[1]
       IN  IF message.hasImages /\ Len(message.images) > 0
              /\ FirstImage(message.images) # Undefined
           THEN Return(FirstImage(message.images))
           ELSE Throw(ErrExtract)

\* src/app/api/generate/route.ts:78: content.match of
\* /https?:\/\/[^\s]+\.(jpg|jpeg|png|webp)/i, Undefined when there is no match.
\* The scheme at i, its length (0 when there is none).
SchemeLen(c, i) ==
  IF At(Lower(c), i, <<"h", "t", "t", "p", ":", "/", "/">>) THEN 7
  ELSE IF At(Lower(c), i, <<"h", "t", "t", "p", "s", ":", "/", "/">>) THEN 8
  ELSE 0

ImageExtensions == << <<"j", "p", "g">>, <<"j", "p", "e", "g">>, <<"p", "n", "g">>, <<"w", "e", "b", "p">> >>

\* The first alternative of (jpg|jpeg|png|webp) that matches at i: its
\* index, 0 when none does.
ExtensionAt(c, i) ==
  LET hits == {n \in 1..Len(ImageExtensions) : At(Lower(c), i, ImageExtensions[n])}
  IN  IF hits = {} THEN 0 ELSE Min(hits)

NotSpace(ch) == ~IsSpace(ch)
NotSpaceNorQuote(ch) == ~IsSpace(ch) /\ ch # "\""
IsLetter(ch) == ch \in Letters
IsBase64Char(ch) == ch \in Base64Chars

\* The end of the match of the whole expression that starts at i, 0 when
\* there is none: [^\s]+ takes the longest run that still leaves a dot and
\* an extension.
ImageUrlMatchEnd(c, i) ==
  LET b == i + SchemeLen(c, i)
      e == RunEnd(c, b, NotSpace)
      ks == {k \in b..e : At(c, k + 1, <<".">>) /\ ExtensionAt(c, k + 2) # 0}
  IN  IF SchemeLen(c, i) = 0 \/ ks = {} THEN 0
      ELSE Max(ks) + 1 + Len(ImageExtensions[ExtensionAt(c, Max(ks) + 2)])

imageUrlMatch(c) ==
  LET starts == {i \in 1..Len(c) : ImageUrlMatchEnd(c, i) # 0}
  IN  IF starts = {} THEN Undefined
      ELSE SubSeq(c, Min(starts), ImageUrlMatchEnd(c, Min(starts)))

\* src/app/api/generate/route.ts:84: content.match(/https?:\/\/[^\s"]+/i).
imageUrlWithQueryMatch(c) ==
  LET starts == {i \in 1..Len(c) :
                   /\ SchemeLen(c, i) # 0
                   /\ RunEnd(c, i + SchemeLen(c, i), NotSpaceNorQuote) >= i + SchemeLen(c, i)}
  IN  IF starts = {} THEN Undefined
      ELSE SubSeq(c, Min(starts),
                  RunEnd(c, Min(starts) + SchemeLen(c, Min(starts)), NotSpaceNorQuote))

\* src/app/api/generate/route.ts:88.
LooksLikeImageUrl(url) ==
  \/ \E n \in 1..Len(ImageExtensions) : Includes(Lower(url), <<".">> \o ImageExtensions[n])
  \/ Includes(url, <<"i", "m", "a", "g", "e">>)
  \/ Includes(url, <<"i", "m", "g">>)

\* src/app/api/generate/route.ts:94:
\* content.match(/data:image\/[a-z]+;base64,[A-Za-z0-9+/=]+/i).
Base64MatchEnd(c, i) ==
  LET b == i + Len(DataImageSlashPrefix)
      e == RunEnd(c, b, IsLetter)
      p == e + 1 + Len(Base64Marker)
  IN  IF At(Lower(c), i, DataImageSlashPrefix) /\ e >= b
         /\ At(Lower(c), e + 1, Base64Marker) /\ RunEnd(c, p, IsBase64Char) >= p
      THEN RunEnd(c, p, IsBase64Char)
      ELSE 0

base64Match(c) ==
  LET starts == {i \in 1..Len(c) : Base64MatchEnd(c, i) # 0}
  IN  IF starts = {} THEN Undefined
      ELSE SubSeq(c, Min(starts), Base64MatchEnd(c, Min(starts)))

\* src/app/api/generate/route.ts:42-104: what its callOpenRouterAPI makes of
\* the response.
RouteCallOpenRouterAPI_parse(resp) ==
  IF resp.kind = "reject" THEN Throw(ErrFetch)
  ELSE IF ~resp.ok THEN Throw(ErrGenerate)
  ELSE IF resp.hasChoices /\ Len(resp.choices) > 0
          /\ resp.choices[1].hasMessage /\ Truthy(resp.choices[1].content)
       THEN LET content == resp.choices[1].content
            IN  IF imageUrlMatch(content) # Undefined
                THEN Return(imageUrlMatch(content))
                ELSE IF imageUrlWithQueryMatch(content) # Undefined
                        /\ LooksLikeImageUrl(imageUrlWithQueryMatch(content))
                THEN Return(imageUrlWithQueryMatch(content))
                ELSE IF base64Match(content) # Undefined
                THEN Return(base64Match(content))
                ELSE Throw(ErrExtract)
       ELSE Throw(ErrExtract)

(* ------------------------- stored data, inputs ------------------------ *)

\* Bounds of the inputs.
\* Longest images list of a provider response.
MaxImages == 2
\* Longest references list of a request.
MaxRefs == 2

MAX_FILE_SIZE == 10485760

User1 == <<"u1">>
User2 == <<"u2">>
Avatar1 == <<"a1">>
\* src/lib/file-storage.ts:45, 57: files saved locally are served under
\* this path.
UploadsMarker == <<"/", "u", "p", "l", "o", "a", "d", "s", "/">>
AvatarUrlBase == <<"h", "t", "t", "p", ":", "/", "/", "a">> \o UploadsMarker
ReferenceUrlBase == <<"h", "t", "t", "p", ":", "/", "/", "r", "/">>
StorageUrlBase == <<"h", "t", "t", "p", "s", ":", "/", "/", "s", "/">>

Photo(n) == [id |-> <<"p", n>>, url |-> AvatarUrlBase \o <<n>>]

\* The avatars table: one avatar of three photos, the fewest an avatar holds.
InitAvatars == << [id |-> Avatar1, userId |-> User1, name |-> <<"A", "n", "a">>,
                   photos |-> <<Photo("1"), Photo("2"), Photo("3")>>] >>

\* The references table: a reference of each user.
InitReferences == << [id |-> <<"r1">>, userId |-> User1,
                      fileUrl |-> ReferenceUrlBase \o <<"1">>,
                      type |-> "thumbnail", description |-> Undefined],
                     [id |-> <<"r2">>, userId |-> User2,
                      fileUrl |-> ReferenceUrlBase \o <<"2">>,
                      type |-> "logo", description |-> Undefined] >>

NoAvatar == [id |-> Undefined, userId |-> Undefined, name |-> Undefined, photos |-> <<>>]

AvatarIds == {Undefined, <<>>, Avatar1, <<"a9">>}
TextIdeas == {Undefined, <<>>, <<" ", " ">>, <<"A", "I">>,
              Rep("x", MaxTextIdea), Rep("x", MaxTextIdea + 1)}
AdditionalPrompts == {Undefined, <<" ">>, <<" ", "g", "o">>,
                      Rep("y", MaxAdditionalPrompt), Rep("y", MaxAdditionalPrompt + 1)}
PhotoIds == {Undefined, <<"p", "2">>, <<"p", "9">>}
NotANumber == [isNumber |-> FALSE, value |-> 0]
Number(n) == [isNumber |-> TRUE, value |-> n]
PhotoIndexes == {NotANumber, Number(0), Number(2), Number(3), Number(-1)}
ReferenceIds == {<<"r1">>, <<"r2">>, <<"r9">>}

SeqsUpTo(S, n) == UNION {[1..k -> S] : k \in 0..n}

\* A request body: the fields of GenerateRequest; references is a list when
\* referencesDefined, undefined otherwise.
Body(a, pid, idx, rd, refs, t, ap) ==
  [avatarId |-> a, avatarPhotoId |-> pid, avatarPhotoIndex |-> idx,
   referencesDefined |-> rd, references |-> refs, textIdea |-> t,
   additionalPrompt |-> ap]

\* The bodies that exercise validation: every combination of avatar id, text
\* idea and additional prompt.
ValidationBodies ==
  {Body(a, Undefined, NotANumber, TRUE, <<>>, t, ap) :
     a \in AvatarIds, t \in TextIdeas, ap \in AdditionalPrompts}

\* The bodies that exercise asset resolution: a valid request with every
\* photo selector, and with every references list.
AssetBodies ==
  {Body(Avatar1, pid, idx, TRUE, <<>>, <<"A", "I">>, Undefined) :
     pid \in PhotoIds, idx \in PhotoIndexes}
  \cup {Body(Avatar1, Undefined, NotANumber, TRUE, refs, <<"A", "I">>, Undefined) :
          refs \in SeqsUpTo(ReferenceIds, MaxRefs)}
  \cup {Body(Avatar1, Undefined, NotANumber, FALSE, <<>>, <<"A", "I">>, Undefined)}

Bodies == ValidationBodies \cup AssetBodies

Sessions == {Undefined, User1}

\* The entries of message.images a provider response may carry.
ProviderUrl == <<"h", "t", "t", "p", ":", "/", "/", "p", "/", "x">>
Payload == <<"Q", "U", "J", "D">>
ImageEntries ==
  { [type |-> "image_url", url |-> ProviderUrl, data |-> Undefined],
    [type |-> "image_url", url |-> <<"f", "t", "p", ":", "/", "/", "p", "/", "x">>, data |-> Undefined],
    [type |-> "image_url", url |-> Undefined, data |-> Undefined],
    [type |-> "image", url |-> Undefined, data |-> PngDataPrefix \o Payload],
    [type |-> "image", url |-> Undefined, data |-> <<"d", "a", "t", "a", ":", "t", "e", "x", "t", "/", "p", "l", "a", "i", "n", ",", "x">>],
    [type |-> "image", url |-> Undefined, data |-> PngSignature \o Payload],
    [type |-> "image", url |-> Undefined, data |-> JpegSignature \o Payload],
    [type |-> "image", url |-> Undefined, data |-> Payload],
    [type |-> "image", url |-> Undefined, data |-> Undefined],
    [type |-> "text", url |-> Undefined, data |-> Undefined] }

\* The message.content strings a provider response may carry.
Contents ==
  { Undefined,
    <<"n", "o">>,
    <<"s", "e", "e", " ">> \o ProviderUrl \o <<".", "p", "n", "g", " ", "o", "k">>,
    <<"\"">> \o ProviderUrl \o <<"/", "i", "m", "g", "?", "q", "\"">>,
    ProviderUrl,
    PngDataPrefix \o Payload }

Choice(hm, hi, imgs, c) == [hasMessage |-> hm, hasImages |-> hi, images |-> imgs, content |-> c]

Choices ==
  {Choice(FALSE, FALSE, <<>>, Undefined), Choice(TRUE, FALSE, <<>>, Undefined)}
  \cup {Choice(TRUE, TRUE, imgs, Undefined) : imgs \in SeqsUpTo(ImageEntries, MaxImages)}
  \cup {Choice(TRUE, FALSE, <<>>, c) : c \in Contents}

Response(k, ok, hc, cs) == [kind |-> k, ok |-> ok, hasChoices |-> hc, choices |-> cs]

ProviderResponses ==
  {Response("reject", FALSE, FALSE, <<>>), Response("http", FALSE, FALSE, <<>>),
   Response("http", TRUE, FALSE, <<>>), Response("http", TRUE, TRUE, <<>>)}
  \cup {Response("http", TRUE, TRUE, <<c>>) : c \in Choices}

(* -------------------------------- state ------------------------------- *)

VARIABLES
  supabaseConfigured,  \* supabaseAdmin !== null (src/lib/supabase.ts:22-27)
  avatars,             \* the avatars table
  references,          \* the references table
  thumbnails,          \* the thumbnails table
  objects,             \* the paths stored in the thumbnails bucket
  handler,             \* which POST serves the request: "POST" or "RoutePOST"
  pc,                  \* where the handler is
  session,             \* session.user.id
  body,                \* the request body
  avatar,              \* the handler's avatar
  avatarPhotoUrl,
  referenceUrls,
  optimizedPrompt,
  content,             \* the content of the provider request in flight
  thumbnailUrl,        \* what callOpenRouterAPI returned
  upload,              \* the state of the upload call
  response,            \* the handler's response
  calls,               \* what the run has called so far
  probe,               \* a response handed to the parser alone, and the result
  files,               \* the URLs of the files under public/uploads
  reply,               \* the response of the last by-id or avatar request
  uploads,             \* the storage uploads of requests that run side by side
  users,               \* the users the db module stores
  registrations        \* the requests of POST /api/auth/register

vars == <<supabaseConfigured, avatars, references, thumbnails, objects, handler, pc,
          session, body, avatar, avatarPhotoUrl, referenceUrls, optimizedPrompt,
          content, thumbnailUrl, upload, response, calls, probe, files, reply, uploads,
          users, registrations>>

\* What the entity routes hold besides the tables.
accounts == <<users, registrations>>
entityState == <<files, reply, uploads, accounts>>

fixed == <<supabaseConfigured, avatars, references, probe, entityState>>
locals == <<avatar, avatarPhotoUrl, referenceUrls, optimizedPrompt, content,
            thumbnailUrl, upload>>

NoResponse == [status |-> 0, success |-> FALSE, thumbnailUrl |-> Undefined, error |-> "none"]
Failure(st, e) == [status |-> st, success |-> FALSE, thumbnailUrl |-> Undefined, error |-> e]
Success(url) == [status |-> 200, success |-> TRUE, thumbnailUrl |-> url, error |-> "none"]

\* Each field counts the calls of one collaborator; generationError is the
\* error callOpenRouterAPI threw, which the handler's catch logs (<<>> when
\* it threw none); conversionFailed says, for each source image of the
\* provider request in flight, whether imageUrlToBase64 returned null.
NoCalls == [getAvatarById |-> 0, getReferenceById |-> 0, provider |-> 0,
            generationError |-> <<>>, conversionFailed |-> <<>>,
            uploadToStorage |-> 0, storageUpload |-> 0,
            createThumbnail |-> 0]

NoProbe == [applied |-> FALSE, input |-> [kind |-> "none", ok |-> FALSE,
                                          hasChoices |-> FALSE, choices |-> <<>>],
            result |-> [threw |-> FALSE, value |-> Undefined, error |-> <<>>]]

\* No entity request has been answered; data holds the entity a response
\* returns, when it returns one.
NoReply == [op |-> "none", user |-> Undefined, id |-> Undefined, status |-> 0,
            data |-> <<>>]

NoUpload == [attempt |-> 0, path |-> Undefined, fileType |-> Undefined,
             waits |-> <<>>, threw |-> FALSE, error |-> <<>>,
             url |-> Undefined, resultPath |-> Undefined]

Init ==
  /\ supabaseConfigured \in BOOLEAN
  /\ avatars = InitAvatars
  /\ references = InitReferences
  /\ thumbnails = <<>>
  /\ objects = {}
  /\ handler = "none"
  /\ pc = "idle"
  /\ session = Undefined
  /\ body = Body(Undefined, Undefined, NotANumber, FALSE, <<>>, Undefined, Undefined)
  /\ avatar = NoAvatar
  /\ avatarPhotoUrl = <<>>
  /\ referenceUrls = <<>>
  /\ optimizedPrompt = <<>>
  /\ content = <<>>
  /\ thumbnailUrl = Undefined
  /\ upload = NoUpload
  /\ response = NoResponse
  /\ calls = NoCalls
  /\ probe = NoProbe
  /\ files = {InitAvatars[1].photos[k].url : k \in 1..Len(InitAvatars[1].photos)}
  /\ reply = NoReply
  /\ uploads = <<>>
  /\ users = <<>>
  /\ registrations = <<>>

\* The handler returns r.
Respond(r) == response' = r /\ pc' = "done"

(* ------------------------- persistence layer -------------------------- *)

\* src/lib/file-storage.ts:569-593, src/unnamed/part_008:231-234: the row of
\* the id, NoAvatar (null) when there is none.
getAvatarById(id) ==
  IF \E i \in 1..Len(avatars) : avatars[i].id = id
  THEN avatars[CHOOSE i \in 1..Len(avatars) : avatars[i].id = id]
  ELSE NoAvatar

\* src/lib/file-storage.ts:379-412, src/unnamed/part_008:148-151: the file
\* A variant of ResolvedReferenceUrls that keeps a place for an id that
\* resolves to nothing.
ResolvedReferenceUrls_KeepStale(ids) ==
  [i \in 1..Len(ids) |->
     LET hits == {j \in 1..Len(references) : references[j].id = ids[i]}
     IN  IF hits = {} THEN Undefined ELSE references[Min(hits)].fileUrl]

\* URLs of the ids that resolve, in order (the filter and map of
\* src/unnamed/part_003:470-472 applied to the rows).
RECURSIVE ResolvedReferenceUrls(_)
ResolvedReferenceUrls(ids) ==
  IF ids = <<>> THEN <<>>
  ELSE LET hits == {i \in 1..Len(references) : references[i].id = Head(ids)}
       IN  (IF hits = {} THEN <<>> ELSE <<references[Min(hits)].fileUrl>>)
           \o ResolvedReferenceUrls(Tail(ids))

\* The id the database gives a new thumbnail: one no stored row has.
NextThumbnailId == Max({0} \cup {thumbnails[i].id : i \in 1..Len(thumbnails)}) + 1

\* A variant of createThumbnail that records no reference ids.
createThumbnail_NoReferences(userId, avatarId, avatarName, prompt, textIdea, url, refs, additionalPrompt) ==
  Append(thumbnails,
         [id |-> NextThumbnailId, userId |-> userId, avatarId |-> avatarId,
          avatarName |-> avatarName, prompt |-> prompt, textIdea |-> textIdea,
          thumbnailUrl |-> url, references |-> <<>>,
          additionalPrompt |-> IF Truthy(additionalPrompt) THEN additionalPrompt ELSE Undefined])

\* src/lib/file-storage.ts:678-727, src/unnamed/part_008:271-296: the table
\* after db.createThumbnail.
createThumbnail(userId, avatarId, avatarName, prompt, textIdea, url, refs, additionalPrompt) ==
  Append(thumbnails,
         [id |-> NextThumbnailId, userId |-> userId, avatarId |-> avatarId,
          avatarName |-> avatarName, prompt |-> prompt, textIdea |-> textIdea,
          thumbnailUrl |-> url, references |-> refs,
          additionalPrompt |-> IF Truthy(additionalPrompt) THEN additionalPrompt ELSE Undefined])

(* --------------------- POST of src/unnamed/part_003 ------------------- *)

\* src/unnamed/part_003:393-437: the validation of the request; the response
\* it ends with, NoResponse when the request passes.
Validate(sess, b) ==
  IF ~Truthy(sess) THEN Failure(401, "Unauthorized")
  ELSE IF ~Truthy(b.avatarId) THEN Failure(400, "Selecione um avatar")
  ELSE IF ~Truthy(b.textIdea) \/ Trim(b.textIdea) = <<>>
       THEN Failure(400, "Digite uma ideia para o thumbnail")
  ELSE IF Len(b.textIdea) > MaxTextIdea
       THEN Failure(400, "A ideia de texto deve ter no maximo 50 caracteres")
  ELSE IF Truthy(b.additionalPrompt) /\ Len(b.additionalPrompt) > MaxAdditionalPrompt
       THEN Failure(400, "O prompt adicional deve ter no maximo 500 caracteres")
  ELSE NoResponse

\* src/unnamed/part_003:389-437: a request arrives and is validated.
POST_Validating(sess, b) ==
  /\ pc = "idle"
  /\ handler' = "POST"
  /\ session' = sess
  /\ body' = b
  /\ IF Validate(sess, b) # NoResponse
     THEN Respond(Validate(sess, b))
     ELSE pc' = "resolvingAvatar" /\ response' = response
  /\ UNCHANGED <<fixed, thumbnails, objects, locals, calls>>

\* The selection with the index preferred to the id.
SelectedPhotoUrl_IndexFirst(av, b) ==
  LET byId == {i \in 1..Len(av.photos) : av.photos[i].id = b.avatarPhotoId}
      at == IF b.avatarPhotoIndex.isNumber
            THEN (IF b.avatarPhotoIndex.value + 1 \in 1..Len(av.photos)
                  THEN b.avatarPhotoIndex.value + 1 ELSE 0)
            ELSE IF Truthy(b.avatarPhotoId)
                 THEN (IF byId = {} THEN 0 ELSE Min(byId))
                 ELSE (IF Len(av.photos) >= 1 THEN 1 ELSE 0)
  IN  IF at = 0 \/ ~Truthy(av.photos[at].url) THEN <<>> ELSE av.photos[at].url

\* src/unnamed/part_003:451-460: the URL of the selected photo, '' when there
\* is none.
SelectedPhotoUrl(av, b) ==
  LET byId == {i \in 1..Len(av.photos) : av.photos[i].id = b.avatarPhotoId}
      at == IF Truthy(b.avatarPhotoId)
            THEN (IF byId = {} THEN 0 ELSE Min(byId))
            ELSE IF b.avatarPhotoIndex.isNumber
                 THEN (IF b.avatarPhotoIndex.value + 1 \in 1..Len(av.photos)
                       THEN b.avatarPhotoIndex.value + 1 ELSE 0)
                 ELSE (IF Len(av.photos) >= 1 THEN 1 ELSE 0)
  IN  IF at = 0 \/ ~Truthy(av.photos[at].url) THEN <<>> ELSE av.photos[at].url

\* src/unnamed/part_003:439-462: the avatar is read (null when there is no
\* row or the read fails) and the photo selected.
POST_ResolvingAvatar(readFails) ==
  /\ pc = "resolvingAvatar" /\ handler = "POST"
  /\ calls' = [calls EXCEPT !.getAvatarById = @ + 1]
  /\ LET av == IF readFails THEN NoAvatar ELSE getAvatarById(body.avatarId)
     IN  IF av = NoAvatar
         THEN /\ Respond(Failure(404, "Avatar nao encontrado"))
              /\ UNCHANGED <<avatar, avatarPhotoUrl>>
         ELSE /\ avatar' = av
              /\ avatarPhotoUrl' = SelectedPhotoUrl(av, body)
              /\ pc' = "resolvingReferences"
              /\ response' = response
  /\ UNCHANGED <<fixed, thumbnails, objects, handler, session, body,
                 referenceUrls, optimizedPrompt, content, thumbnailUrl, upload>>

\* src/unnamed/part_003:464-482: the references are read, all at once, and
\* the prompt composed; generateOptimizedPrompt throws a TypeError on
\* undefined references, which the outer catch answers (564-572).
POST_ResolvingReferences ==
  /\ pc = "resolvingReferences" /\ handler = "POST"
  /\ LET reads == body.referencesDefined /\ Len(body.references) > 0
     IN  /\ calls' = [calls EXCEPT !.getReferenceById =
                        @ + (IF reads THEN Len(body.references) ELSE 0)]
         /\ referenceUrls' = IF reads THEN ResolvedReferenceUrls(body.references) ELSE <<>>
  /\ IF ~body.referencesDefined
     THEN /\ Respond(Failure(500, "Erro interno do servidor"))
          /\ UNCHANGED optimizedPrompt
     ELSE /\ optimizedPrompt' = generateOptimizedPrompt(body.textIdea, avatarPhotoUrl,
                                                        body.references, body.additionalPrompt)
          /\ pc' = "generating"
          /\ response' = response
  /\ UNCHANGED <<fixed, thumbnails, objects, handler, session, body,
                 avatar, avatarPhotoUrl, content, thumbnailUrl, upload>>

(* --------------------------- generation client ------------------------ *)

ContentTypeJpeg == <<"i", "m", "a", "g", "e", "/", "j", "p", "e", "g">>

\* src/unnamed/part_003:243-262: the data URL of the image at url, Undefined
\* (null) when it cannot be fetched; fetched says whether the fetch gives a
\* success response.
imageUrlToBase64(url, fetched) ==
  IF StartsWith(url, DataPrefix) THEN url
  ELSE IF fetched THEN DataPrefix \o ContentTypeJpeg \o Base64Marker \o Payload
  ELSE Undefined

TextEntry(t) == [type |-> "text", text |-> t, url |-> Undefined]
ImageUrlEntry(u) == [type |-> "image_url", text |-> Undefined, url |-> u]

\* src/unnamed/part_003:302-313: the entries of the reference images.
RECURSIVE ReferenceEntries(_, _)
ReferenceEntries(urls, fetched) ==
  IF urls = <<>> THEN <<>>
  ELSE (IF imageUrlToBase64(Head(urls), Head(fetched)) # Undefined
        THEN <<ImageUrlEntry(imageUrlToBase64(Head(urls), Head(fetched)))>>
        ELSE <<>>)
       \o ReferenceEntries(Tail(urls), Tail(fetched))

\* src/unnamed/part_003:272-313: the content of the provider request.
BuildContent(prompt, photoUrl, refUrls, avatarFetched, refsFetched) ==
  <<TextEntry(prompt)>>
  \o (IF Truthy(photoUrl)
      THEN (IF imageUrlToBase64(photoUrl, avatarFetched) # Undefined
            THEN <<ImageUrlEntry(imageUrlToBase64(photoUrl, avatarFetched))>>
            ELSE <<ImageUrlEntry(photoUrl)>>)
      ELSE <<>>)
  \o ReferenceEntries(refUrls, refsFetched)

\* src/unnamed/part_003:281-303: for each source image of a provider call,
\* the avatar photo first when there is one, whether its conversion returned
\* null.
ConversionFailed(photoUrl, refUrls, avatarFetched, refsFetched) ==
  (IF Truthy(photoUrl)
   THEN <<imageUrlToBase64(photoUrl, avatarFetched) = Undefined>>
   ELSE <<>>)
  \o [i \in 1..Len(refUrls) |-> imageUrlToBase64(refUrls[i], refsFetched[i]) = Undefined]

\* A variant of GenerationFailed with the message of the outer catch.
GenerationFailed_Internal == Failure(500, "Erro interno do servidor")

\* src/unnamed/part_003:499-502, src/app/api/generate/route.ts:167-170: the
\* response of the catch of the provider call.
GenerationFailed == Failure(500, "Falha na geracao, tente novamente")

\* A variant of PcAfterGenerationError in which the handler calls the provider
\* again.
PcAfterGenerationError_Retry == "generating"

\* A variant of PcAfterGenerationError in which the handler goes on to the
\* upload.
PcAfterGenerationError_Upload == "downloading"

\* src/unnamed/part_003:493-503, src/app/api/generate/route.ts:164-171: the
\* catch returns: where the handler is after it.
PcAfterGenerationError == "done"

\* src/unnamed/part_003:484-491, 265-336: callOpenRouterAPI is called; it
\* throws without an API key, else builds the content and sends the request.
POST_Generating_Send(apiKey, avatarFetched, refsFetched) ==
  /\ pc = "generating" /\ handler = "POST"
  /\ IF ~apiKey
     THEN /\ Respond(GenerationFailed)
          /\ calls' = [calls EXCEPT !.generationError = ErrApiKey]
          /\ UNCHANGED content
     ELSE /\ content' = BuildContent(optimizedPrompt, avatarPhotoUrl, referenceUrls,
                                     avatarFetched, refsFetched)
          /\ calls' = [calls EXCEPT
                         !.provider = @ + 1,
                         !.conversionFailed =
                            ConversionFailed(avatarPhotoUrl, referenceUrls,
                                             avatarFetched, refsFetched)]
          /\ pc' = "awaitingProvider"
          /\ response' = response
  /\ UNCHANGED <<fixed, thumbnails, objects, handler, session, body,
                 avatar, avatarPhotoUrl, referenceUrls, optimizedPrompt, thumbnailUrl,
                 upload>>

\* src/unnamed/part_003:338-387, 491-513: the provider answers; a throw of
\* callOpenRouterAPI ends the run, a result starts the upload.
POST_Generating_Response(resp) ==
  /\ pc = "awaitingProvider" /\ handler = "POST"
  /\ content' = <<>>
  /\ LET r == callOpenRouterAPI_parse(resp)
     IN  IF r.threw
         THEN /\ response' = GenerationFailed
              /\ pc' = PcAfterGenerationError
              /\ calls' = [calls EXCEPT !.generationError = r.error,
                                        !.conversionFailed = <<>>]
              /\ UNCHANGED thumbnailUrl
         ELSE /\ thumbnailUrl' = r.value
              /\ calls' = [calls EXCEPT !.uploadToStorage = @ + 1,
                                        !.conversionFailed = <<>>]
              /\ pc' = "downloading"
              /\ response' = response
  /\ UNCHANGED <<fixed, thumbnails, objects, handler, session, body,
                 avatar, avatarPhotoUrl, referenceUrls, optimizedPrompt, upload>>

(* ---------------------------- storage uploader ------------------------ *)

MsgInvalidDataUrl == <<"Invalid data URL format">>
MsgDownloadFailed == <<"Failed to download image">>
MsgBucketNotFound == <<"B", "u", "c", "k", "e", "t", " ", "n", "o", "t", " ", "f", "o", "u", "n", "d">>
MsgHttp503 == <<"H", "T", "T", "P", " ", "5", "0", "3">>

\* The error messages the storage client may answer an upload with.
StorageErrors == {MsgServiceUnavailable, MsgHttp503, MsgNetworkError, MsgBucketNotFound}

\* The Date.now() and Math.random() parts of a path.
Stamps == {<<"1700000000000-k3x9">>}

\* What a fetch of an image URL may give: [kind, size, type], kind "reject"
\* when fetch throws, "notOk" for a failure response, "ok" for a blob.
Downloads ==
  {[kind |-> "reject", size |-> 0, type |-> <<>>], [kind |-> "notOk", size |-> 0, type |-> <<>>]}
  \cup {[kind |-> "ok", size |-> n, type |-> t] :
          n \in {MAX_FILE_SIZE, MAX_FILE_SIZE + 1},
          t \in {<<>>, <<"i", "m", "a", "g", "e", "/", "p", "n", "g">>}}

\* The length of Buffer.from(base64Data, 'base64') for base64 data of n
\* characters other than padding.
Base64DecodedLength(n) == (n * 3) \div 4

\* Buffer.from(base64Data, 'base64').length.
DecodedLength(data) ==
  Base64DecodedLength(Cardinality({i \in 1..Len(data) : data[i] \in Base64Chars \ {"="}}))

\* A variant of ExceedsMaxFileSize that also refuses a file of the limit's
\* size.
ExceedsMaxFileSize_AtLimit(size) == size >= MAX_FILE_SIZE

\* src/lib/supabase-storage.ts:34, 55: the size check of a downloaded image.
ExceedsMaxFileSize(size) == size > MAX_FILE_SIZE

\* src/lib/supabase-storage.ts:29-43: the file of a data URL that matched,
\* of subtype mime and with base64 data that decodes to size bytes.
DataUrlFile(mime, size) ==
  IF ExceedsMaxFileSize(size)
  THEN Throw(MsgArquivoMuitoGrande)
  ELSE Return([size |-> size,
               type |-> <<"i", "m", "a", "g", "e", "/">> \o mime,
               extension |-> mime])

\* contentType.split('/')[1], <<>> when there is none.
SecondSegment(t) ==
  LET slashes == {i \in 1..Len(t) : t[i] = "/"}
      first == Min(slashes)
      rest == {i \in slashes : i > first}
  IN  IF slashes = {} THEN <<>>
      ELSE SubSeq(t, first + 1, IF rest = {} THEN Len(t) ELSE Min(rest) - 1)

\* src/lib/supabase-storage.ts:45-68: the file of an HTTP(S) locator; d is
\* what the fetch gives.
FetchedFile(d) ==
  IF d.kind = "reject" THEN Throw(ErrFetch)
  ELSE IF d.kind = "notOk" THEN Throw(MsgDownloadFailed)
  ELSE IF ExceedsMaxFileSize(d.size) THEN Throw(MsgArquivoMuitoGrande)
  ELSE LET contentType == IF d.type # <<>> THEN d.type ELSE ContentTypeJpeg
           extension == IF SecondSegment(contentType) # <<>>
                        THEN SecondSegment(contentType) ELSE <<"j", "p", "g">>
       IN  Return([size |-> d.size, type |-> contentType, extension |-> extension])

\* src/lib/supabase-storage.ts:21-69: the file of an image locator, as
\* Return([size, type, extension]) or a throw; d is what a fetch gives.
downloadImageFromUrl(url, d) ==
  IF StartsWith(url, DataImageSlashPrefix)
  THEN LET b == Len(DataImageSlashPrefix) + 1
           e == RunEnd(url, b, IsLetter)
           p == e + 1 + Len(Base64Marker)
           matches == /\ e >= b
                      /\ At(Lower(url), e + 1, Base64Marker)
                      /\ p <= Len(url)
                      /\ \A i \in p..Len(url) : url[i] # "\n"
       IN  IF ~matches THEN Throw(MsgInvalidDataUrl)
           ELSE DataUrlFile(SubSeq(url, b, e), DecodedLength(SubSeq(url, p, Len(url))))
  ELSE FetchedFile(d)

getPublicUrl(path) == StorageUrlBase \o path

\* src/lib/supabase-storage.ts:212-234, 105-120: uploadThumbnailToStorage
\* once the download has given file or thrown: the path is made and
\* uploadFileWithRetry entered, which throws at once without a storage client.
uploadThumbnailToStorage(file, userId, stamp) ==
  IF file.threw
  THEN /\ upload' = [upload EXCEPT !.threw = TRUE, !.error = file.error]
       /\ pc' = "uploaded"
  ELSE /\ upload' = [upload EXCEPT
            !.path = userId \o <<"/">> \o stamp \o <<".">> \o file.value.extension,
            !.fileType = file.value.type,
            !.attempt = IF supabaseConfigured THEN 1 ELSE 0,
            !.threw = ~supabaseConfigured,
            !.error = IF supabaseConfigured THEN <<>> ELSE MsgServicoIndisponivel]
       /\ pc' = IF supabaseConfigured THEN "uploading" ELSE "uploaded"

\* src/lib/supabase-storage.ts:74-100, 212-234, 105-120: the image is
\* downloaded and its path made; uploadFileWithRetry throws at once without a
\* storage client, else starts its first attempt.
uploadToStorage_Download(d, stamp) ==
  /\ pc = "downloading"
  /\ uploadThumbnailToStorage(downloadImageFromUrl(thumbnailUrl, d), session, stamp)
  /\ UNCHANGED <<fixed, thumbnails, objects, handler, session, body,
                 avatar, avatarPhotoUrl, referenceUrls, optimizedPrompt, content,
                 thumbnailUrl, response, calls>>

\* src/lib/supabase-storage.ts:136-145: the error an attempt throws for the
\* storage client's error message.
AttemptError(message) ==
  IF \/ Includes(message, MsgServiceUnavailable)
     \/ Includes(message, Msg503)
     \/ Includes(message, MsgNetworkError)
  THEN MsgServicoIndisponivel
  ELSE message

\* A variant of RetriesAfter whose loop runs one attempt more.
RetriesAfter_OneMore(attempt, error) == attempt <= MAX_RETRIES

\* src/lib/supabase-storage.ts:167-178: whether the loop goes on to another
\* attempt after attempt has thrown error.
RetriesAfter(attempt, error) == attempt < MAX_RETRIES

\* A wait that does not grow with the attempt.
RetryDelay_Flat(attempt) == RETRY_DELAY_MS

\* src/lib/supabase-storage.ts:175-177: the wait, in ms, after attempt has
\* failed.
RetryDelay(attempt) == RETRY_DELAY_MS * attempt

\* src/lib/supabase-storage.ts:122-178: one attempt of uploadFileWithRetry;
\* outcome is <<>> when the storage client reports no error, else its
\* error message.
uploadFileWithRetry_Attempt(outcome) ==
  /\ pc = "uploading"
  /\ calls' = [calls EXCEPT !.storageUpload = @ + 1]
  /\ IF outcome = <<>>
     THEN /\ objects' = objects \cup {upload.path}
          /\ upload' = [upload EXCEPT !.url = getPublicUrl(upload.path),
                                      !.resultPath = upload.path]
          /\ pc' = "uploaded"
     ELSE /\ objects' = objects
          /\ IF RetriesAfter(upload.attempt, AttemptError(outcome))
             THEN /\ upload' = [upload EXCEPT
                       !.error = AttemptError(outcome),
                       !.waits = Append(@, RetryDelay(upload.attempt)),
                       !.attempt = @ + 1]
                  /\ pc' = pc
             ELSE /\ upload' = [upload EXCEPT !.error = AttemptError(outcome),
                                               !.threw = TRUE]
                  /\ pc' = "uploaded"
  /\ UNCHANGED <<fixed, thumbnails, handler, session, body, avatar,
                 avatarPhotoUrl, referenceUrls, optimizedPrompt, content, thumbnailUrl,
                 response>>

(* ------------------- POST of src/unnamed/part_003, end ---------------- *)

\* src/unnamed/part_003:526-527: the final URL is usable.
UsableUrl(url) ==
  Truthy(url) /\ (StartsWith(url, HttpPrefix) \/ StartsWith(url, DataImagePrefix))

\* src/unnamed/part_003:557-563: the response when db.createThumbnail throws.
PersistenceFailedResponse(storageUrl) == Failure(500, "Erro interno do servidor")

\* src/unnamed/part_003:513-563: the upload has returned or thrown; the final
\* URL is chosen and validated and the record written.
POST_Recording(dbFails) ==
  /\ pc = "uploaded" /\ handler = "POST"
  /\ LET storageUrl == IF upload.threw THEN thumbnailUrl ELSE upload.url
     IN  IF ~UsableUrl(storageUrl)
         THEN /\ Respond(Failure(500, "Erro ao processar imagem"))
              /\ UNCHANGED <<thumbnails, calls>>
         ELSE /\ calls' = [calls EXCEPT !.createThumbnail = @ + 1]
              /\ IF dbFails
                 THEN /\ Respond(PersistenceFailedResponse(storageUrl))
                      /\ UNCHANGED thumbnails
                 ELSE /\ thumbnails' = createThumbnail(session, body.avatarId, avatar.name,
                                          optimizedPrompt, body.textIdea, storageUrl,
                                          body.references, body.additionalPrompt)
                      /\ Respond(Success(storageUrl))
  /\ UNCHANGED <<fixed, objects, handler, session, body, locals>>

(* ---------------- POST of src/app/api/generate/route.ts --------------- *)

\* src/app/api/generate/route.ts:108-142: the validation of the request.
RouteValidate(sess, b) ==
  IF ~Truthy(sess) THEN Failure(401, "Unauthorized")
  ELSE IF ~Truthy(b.avatarId) THEN Failure(400, "Selecione um avatar")
  ELSE IF ~Truthy(b.textIdea) \/ Trim(b.textIdea) = <<>>
       THEN Failure(400, "Digite uma ideia para o thumbnail")
  ELSE IF Len(b.textIdea) > MaxTextIdea
       THEN Failure(400, "A ideia de texto deve ter no maximo 50 caracteres")
  ELSE NoResponse

\* src/app/api/generate/route.ts:106-142.
RoutePOST_Validating(sess, b) ==
  /\ pc = "idle"
  /\ handler' = "RoutePOST"
  /\ session' = sess
  /\ body' = b
  /\ IF RouteValidate(sess, b) # NoResponse
     THEN Respond(RouteValidate(sess, b))
     ELSE pc' = "resolvingAvatar" /\ response' = response
  /\ UNCHANGED <<fixed, thumbnails, objects, locals, calls>>

\* src/app/api/generate/route.ts:144-158: the avatar is read and the prompt
\* composed; generateOptimizedPrompt throws a TypeError on undefined
\* references, which the outer catch answers (255-261).
RoutePOST_ResolvingAvatar(readFails) ==
  /\ pc = "resolvingAvatar" /\ handler = "RoutePOST"
  /\ calls' = [calls EXCEPT !.getAvatarById = @ + 1]
  /\ LET av == IF readFails THEN NoAvatar ELSE getAvatarById(body.avatarId)
     IN  IF av = NoAvatar
         THEN /\ Respond(Failure(404, "Avatar nao encontrado"))
              /\ UNCHANGED <<avatar, optimizedPrompt>>
         ELSE /\ avatar' = av
              /\ IF ~body.referencesDefined
                 THEN /\ Respond(Failure(500, "Erro interno do servidor"))
                      /\ UNCHANGED optimizedPrompt
                 ELSE /\ optimizedPrompt' = RouteGenerateOptimizedPrompt(
                                              body.textIdea, body.avatarPhotoId, body.references)
                      /\ pc' = "generating"
                      /\ response' = response
  /\ UNCHANGED <<fixed, thumbnails, objects, handler, session, body,
                 avatarPhotoUrl, referenceUrls, content, thumbnailUrl, upload>>

\* src/app/api/generate/route.ts:160-163, 35-61: callOpenRouterAPI is called;
\* it throws without an API key, else sends the prompt.
RoutePOST_Generating_Send(apiKey) ==
  /\ pc = "generating" /\ handler = "RoutePOST"
  /\ IF ~apiKey
     THEN /\ Respond(GenerationFailed)
          /\ calls' = [calls EXCEPT !.generationError = ErrApiKey]
          /\ UNCHANGED content
     ELSE /\ content' = <<TextEntry(optimizedPrompt)>>
          /\ calls' = [calls EXCEPT !.provider = @ + 1]
          /\ pc' = "awaitingProvider"
          /\ response' = response
  /\ UNCHANGED <<fixed, thumbnails, objects, handler, session, body,
                 avatar, avatarPhotoUrl, referenceUrls, optimizedPrompt, thumbnailUrl,
                 upload>>

\* src/app/api/generate/route.ts:63-104, 163-190, 228-232: the provider
\* answers; the URL must begin with http; the upload starts when storage is
\* configured.
RoutePOST_Generating_Response(resp) ==
  /\ pc = "awaitingProvider" /\ handler = "RoutePOST"
  /\ content' = <<>>
  /\ LET r == RouteCallOpenRouterAPI_parse(resp)
     IN  IF r.threw
         THEN /\ response' = GenerationFailed
              /\ pc' = PcAfterGenerationError
              /\ calls' = [calls EXCEPT !.generationError = r.error]
              /\ UNCHANGED thumbnailUrl
         ELSE /\ thumbnailUrl' = r.value
              /\ IF ~Truthy(r.value) \/ ~StartsWith(r.value, HttpPrefix)
                 THEN /\ Respond(Failure(500, "Erro ao processar imagem"))
                      /\ UNCHANGED calls
                 ELSE /\ response' = response
                      /\ IF supabaseConfigured
                         THEN /\ calls' = [calls EXCEPT !.uploadToStorage = @ + 1]
                              /\ pc' = "downloading"
                         ELSE /\ pc' = "recordingUnconfigured"
                              /\ UNCHANGED calls
  /\ UNCHANGED <<fixed, thumbnails, objects, handler, session, body,
                 avatar, avatarPhotoUrl, referenceUrls, optimizedPrompt, upload>>

\* src/app/api/generate/route.ts:223-226: the response when db.createThumbnail
\* throws after the upload.
RoutePersistenceFailedResponse(storageUrl, providerUrl) == Success(providerUrl)

\* src/app/api/generate/route.ts:204-226: the response when the upload has
\* thrown error.
RouteUploadFailedResponse(error, providerUrl) ==
  IF error = MsgServicoIndisponivel THEN Failure(503, "Servico indisponivel")
  ELSE IF error = MsgArquivoMuitoGrande THEN Failure(400, "Arquivo muito grande")
  ELSE Success(providerUrl)

\* src/app/api/generate/route.ts:185-254: the upload has returned or thrown.
RoutePOST_Recording(dbFails) ==
  /\ pc = "uploaded" /\ handler = "RoutePOST"
  /\ IF upload.threw
     THEN /\ Respond(RouteUploadFailedResponse(upload.error, thumbnailUrl))
          /\ UNCHANGED <<thumbnails, calls>>
     ELSE /\ calls' = [calls EXCEPT !.createThumbnail = @ + 1]
          /\ IF dbFails
             THEN /\ Respond(RoutePersistenceFailedResponse(upload.url, thumbnailUrl))
                  /\ UNCHANGED thumbnails
             ELSE /\ thumbnails' = createThumbnail(session, body.avatarId, avatar.name,
                                      optimizedPrompt, body.textIdea, upload.url,
                                      body.references, Undefined)
                  /\ Respond(Success(upload.url))
  /\ UNCHANGED <<fixed, objects, handler, session, body, locals>>

\* src/app/api/generate/route.ts:228-254: without storage the provider URL
\* is recorded and returned, whether or not the record is written.
RoutePOST_RecordingUnconfigured(dbFails) ==
  /\ pc = "recordingUnconfigured" /\ handler = "RoutePOST"
  /\ calls' = [calls EXCEPT !.createThumbnail = @ + 1]
  /\ thumbnails' = IF dbFails THEN thumbnails
                   ELSE createThumbnail(session, body.avatarId, avatar.name,
                                        optimizedPrompt, body.textIdea, thumbnailUrl,
                                        body.references, Undefined)
  /\ Respond(Success(thumbnailUrl))
  /\ UNCHANGED <<fixed, objects, handler, session, body, locals>>

(* ----------------------------- specification -------------------------- *)

Next ==
  \/ \E sess \in Sessions, b \in Bodies : POST_Validating(sess, b)
  \/ \E readFails \in BOOLEAN : POST_ResolvingAvatar(readFails)
  \/ POST_ResolvingReferences
  \/ \E apiKey \in BOOLEAN, avatarFetched \in BOOLEAN,
        refsFetched \in [1..Len(referenceUrls) -> BOOLEAN] :
       POST_Generating_Send(apiKey, avatarFetched, refsFetched)
  \/ \E resp \in ProviderResponses : POST_Generating_Response(resp)
  \/ \E d \in Downloads, stamp \in Stamps : uploadToStorage_Download(d, stamp)
  \/ \E outcome \in {<<>>} \cup StorageErrors : uploadFileWithRetry_Attempt(outcome)
  \/ \E dbFails \in BOOLEAN : POST_Recording(dbFails)
  \/ \E sess \in Sessions, b \in Bodies : RoutePOST_Validating(sess, b)
  \/ \E readFails \in BOOLEAN : RoutePOST_ResolvingAvatar(readFails)
  \/ \E apiKey \in BOOLEAN : RoutePOST_Generating_Send(apiKey)
  \/ \E resp \in ProviderResponses : RoutePOST_Generating_Response(resp)
  \/ \E dbFails \in BOOLEAN : RoutePOST_Recording(dbFails)
  \/ \E dbFails \in BOOLEAN : RoutePOST_RecordingUnconfigured(dbFails)

Spec == Init /\ [][Next]_vars

(* ------------------- the response parser on its own ------------------- *)

\* callOpenRouterAPI of src/unnamed/part_003 is handed the provider
\* response resp.
callOpenRouterAPI_Apply(resp) ==
  /\ ~probe.applied
  /\ probe' = [applied |-> TRUE, input |-> resp, result |-> callOpenRouterAPI_parse(resp)]
  /\ UNCHANGED <<entityState, supabaseConfigured, avatars, references, thumbnails, objects, handler,
                 pc, session, body, locals, response, calls>>

NextParse == \E resp \in ProviderResponses : callOpenRouterAPI_Apply(resp)

SpecParse == Init /\ [][NextParse]_vars

(* ------------------------ the uploader on its own --------------------- *)

\* How far from MAX_FILE_SIZE the sizes of the images handed to the uploader
\* lie.
SizeSlack == 8

ImageSizes == (MAX_FILE_SIZE - SizeSlack)..(MAX_FILE_SIZE + SizeSlack)

\* The number of base64 characters, padding aside, of a data URL that holds
\* an image of the given number of bytes.
Base64Length(bytes) == (4 * bytes + 2) \div 3

\* The images handed to uploadThumbnailToStorage: a data URL of a subtype
\* and a number of bytes, or an HTTP(S) URL with what its fetch gives.
SizedImages ==
  {[kind |-> "data", size |-> n, type |-> m] :
     n \in ImageSizes, m \in {<<"p", "n", "g">>, <<"j", "p", "e", "g">>}}
  \cup {[kind |-> "ok", size |-> n, type |-> t] :
          n \in ImageSizes, t \in {<<>>, <<"i", "m", "a", "g", "e", "/", "p", "n", "g">>}}
  \cup {[kind |-> "reject", size |-> 0, type |-> <<>>],
        [kind |-> "notOk", size |-> 0, type |-> <<>>]}

\* src/lib/supabase-storage.ts:21-69: downloadImageFromUrl for an image of
\* SizedImages.
downloadSizedImage(img) ==
  IF img.kind = "data"
  THEN DataUrlFile(img.type, Base64DecodedLength(Base64Length(img.size)))
  ELSE FetchedFile(img)

\* src/lib/supabase-storage.ts:212-234: uploadThumbnailToStorage is called
\* with an image and a user id.
uploadThumbnailToStorage_Call(img, userId, stamp) ==
  /\ pc = "idle" /\ handler = "none"
  /\ handler' = "uploadThumbnailToStorage"
  /\ session' = userId
  /\ probe' = [applied |-> TRUE, input |-> img, result |-> downloadSizedImage(img)]
  /\ calls' = [calls EXCEPT !.uploadToStorage = @ + 1]
  /\ uploadThumbnailToStorage(downloadSizedImage(img), userId, stamp)
  /\ UNCHANGED <<entityState, supabaseConfigured, avatars, references, thumbnails, objects, body,
                 avatar, avatarPhotoUrl, referenceUrls, optimizedPrompt, content,
                 thumbnailUrl, response>>

NextUpload ==
  \/ \E img \in SizedImages, stamp \in Stamps :
       uploadThumbnailToStorage_Call(img, User1, stamp)
  \/ \E outcome \in {<<>>} \cup StorageErrors : uploadFileWithRetry_Attempt(outcome)

SpecUpload == Init /\ [][NextUpload]_vars

(* ------------------------------ entity routes ------------------------- *)

\* The position of the row of an id in a table, 0 when there is none.
IndexOf(table, id) ==
  LET hits == {i \in 1..Len(table) : table[i].id = id}
  IN  IF hits = {} THEN 0 ELSE Min(hits)

\* A table without its row i.
Remove(table, i) ==
  [j \in 1..(Len(table) - 1) |-> IF j < i THEN table[j] ELSE table[j + 1]]

\* The handler returns a response of status st that carries data.
Reply(op, sess, id, st, data) ==
  reply' = [op |-> op, user |-> sess, id |-> id, status |-> st, data |-> data]

\* src/lib/file-storage.ts:53-67: the files left after fileStorage.deleteFile
\* of each of urls.
deleteFile(urls) == {f \in files : ~(f \in urls /\ Includes(f, UploadsMarker))}

\* A variant of Forbidden that lets every session user through.
Forbidden_Never(row, sess) == FALSE

\* src/unnamed/part_003:126-131, 173-178, src/app/api/avatars/[id]/route.ts:32,
\* 72, 188, src/app/api/references/[id]/route.ts:26, 67: the owner check of
\* the by-id routes.
Forbidden(row, sess) == row.userId # sess

\* The tables and counters an entity route leaves alone besides those named.
generateState == <<supabaseConfigured, objects, handler, pc, session, body, locals,
                   response, calls, probe, uploads, accounts>>

\* src/unnamed/part_003:102-146: GET /api/thumbnails/[id].
ThumbnailGET(sess, id) ==
  /\ LET i == IndexOf(thumbnails, id)
     IN  IF ~Truthy(sess) THEN Reply("GET thumbnail", sess, id, 401, <<>>)
         ELSE IF i = 0 THEN Reply("GET thumbnail", sess, id, 404, <<>>)
         ELSE IF Forbidden(thumbnails[i], sess) THEN Reply("GET thumbnail", sess, id, 403, <<>>)
         ELSE Reply("GET thumbnail", sess, id, 200, <<thumbnails[i]>>)
  /\ UNCHANGED <<generateState, avatars, references, thumbnails, files>>

\* A variant of deleteThumbnail that empties the table.
deleteThumbnail_All(id) ==
  IF IndexOf(thumbnails, id) = 0 THEN thumbnails ELSE <<>>

\* src/lib/file-storage.ts:791-806, src/unnamed/part_008:313-320: the table
\* after db.deleteThumbnail.
deleteThumbnail(id) ==
  IF IndexOf(thumbnails, id) = 0 THEN thumbnails
  ELSE Remove(thumbnails, IndexOf(thumbnails, id))

\* src/unnamed/part_003:149-199: DELETE /api/thumbnails/[id]; dbFails says
\* that the database answers the delete with an error.
ThumbnailDELETE(sess, id, dbFails) ==
  /\ LET i == IndexOf(thumbnails, id)
     IN  IF ~Truthy(sess)
         THEN Reply("DELETE thumbnail", sess, id, 401, <<>>) /\ UNCHANGED thumbnails
         ELSE IF i = 0
         THEN Reply("DELETE thumbnail", sess, id, 404, <<>>) /\ UNCHANGED thumbnails
         ELSE IF Forbidden(thumbnails[i], sess)
         THEN Reply("DELETE thumbnail", sess, id, 403, <<>>) /\ UNCHANGED thumbnails
         ELSE IF dbFails
         THEN Reply("DELETE thumbnail", sess, id, 500, <<>>) /\ UNCHANGED thumbnails
         ELSE /\ thumbnails' = deleteThumbnail(id)
              /\ Reply("DELETE thumbnail", sess, id, 200, <<>>)
  /\ UNCHANGED <<generateState, avatars, references, files>>

\* src/app/api/avatars/[id]/route.ts:11-44: GET /api/avatars/[id].
AvatarGET(sess, id) ==
  /\ LET a == getAvatarById(id)
     IN  IF ~Truthy(sess) THEN Reply("GET avatar", sess, id, 401, <<>>)
         ELSE IF a = NoAvatar THEN Reply("GET avatar", sess, id, 404, <<>>)
         ELSE IF Forbidden(a, sess) THEN Reply("GET avatar", sess, id, 403, <<>>)
         ELSE Reply("GET avatar", sess, id, 200, <<a>>)
  /\ UNCHANGED <<generateState, avatars, references, thumbnails, files>>

\* A variant of OnDeleteSetNull in which the rule is ON DELETE CASCADE.
OnDeleteSetNull_Cascade(id) ==
  IF supabaseConfigured
  THEN SelectSeq(thumbnails, LAMBDA t : t.avatarId # id)
  ELSE thumbnails

\* src/scripts/create-tables.ts:162-173: thumbnails.avatar_id REFERENCES
\* avatars(id) ON DELETE SET NULL: the thumbnails table after the avatar row
\* of id is deleted from the Supabase database.  The in-memory tables of
\* src/unnamed/part_008 have no such rule.
OnDeleteSetNull(id) ==
  IF supabaseConfigured
  THEN [i \in 1..Len(thumbnails) |->
          IF thumbnails[i].avatarId = id
          THEN [thumbnails[i] EXCEPT !.avatarId = Undefined]
          ELSE thumbnails[i]]
  ELSE thumbnails

\* src/app/api/avatars/[id]/route.ts:167-215, src/lib/file-storage.ts:632-668:
\* DELETE /api/avatars/[id]: the files of the photos are deleted, then the
\* row.
AvatarDELETE(sess, id, dbFails) ==
  /\ LET a == getAvatarById(id)
     IN  IF ~Truthy(sess)
         THEN Reply("DELETE avatar", sess, id, 401, <<>>)
              /\ UNCHANGED <<avatars, thumbnails, files>>
         ELSE IF a = NoAvatar
         THEN Reply("DELETE avatar", sess, id, 404, <<>>)
              /\ UNCHANGED <<avatars, thumbnails, files>>
         ELSE IF Forbidden(a, sess)
         THEN Reply("DELETE avatar", sess, id, 403, <<>>)
              /\ UNCHANGED <<avatars, thumbnails, files>>
         ELSE /\ files' = deleteFile({a.photos[k].url : k \in 1..Len(a.photos)})
              /\ IF dbFails
                 THEN Reply("DELETE avatar", sess, id, 500, <<>>)
                      /\ UNCHANGED <<avatars, thumbnails>>
                 ELSE /\ avatars' = Remove(avatars, IndexOf(avatars, id))
                      /\ thumbnails' = OnDeleteSetNull(id)
                      /\ Reply("DELETE avatar", sess, id, 200, <<>>)
  /\ UNCHANGED <<generateState, references>>

\* src/app/api/references/[id]/route.ts:6-41, src/lib/file-storage.ts:422-445:
\* DELETE /api/references/[id]; the result of db.deleteReference is not
\* looked at.
ReferenceDELETE(sess, id, dbFails) ==
  /\ LET i == IndexOf(references, id)
     IN  IF ~Truthy(sess)
         THEN Reply("DELETE reference", sess, id, 401, <<>>) /\ UNCHANGED references
         ELSE IF i = 0
         THEN Reply("DELETE reference", sess, id, 404, <<>>) /\ UNCHANGED references
         ELSE IF Forbidden(references[i], sess)
         THEN Reply("DELETE reference", sess, id, 403, <<>>) /\ UNCHANGED references
         ELSE /\ references' = IF dbFails THEN references ELSE Remove(references, i)
              /\ Reply("DELETE reference", sess, id, 200, <<>>)
  /\ UNCHANGED <<generateState, avatars, thumbnails, files>>

ValidReferenceTypes == {"thumbnail", "logo", "icon", "background"}

MAX_PHOTO_SIZE == 5242880
MIN_PHOTOS == 3
MAX_PHOTOS == 10

\* Uploaded files, as [type, size].
GoodFile == [type |-> "image/png", size |-> MAX_PHOTO_SIZE]
BadTypeFile == [type |-> "image/gif", size |-> 1]
BigFile == [type |-> "image/jpeg", size |-> MAX_PHOTO_SIZE + 1]

\* A list of n uploaded files whose last one is of kind odd: "type" for an
\* unsupported type, "size" for a file over the limit, "none" for a good one.
Files(n, odd) ==
  [k \in 1..n |-> IF k < n \/ odd = "none" THEN GoodFile
                  ELSE IF odd = "type" THEN BadTypeFile ELSE BigFile]

\* src/lib/file-storage.ts:70-73.
isValidImageType(mimeType) ==
  mimeType \in {"image/jpeg", "image/jpg", "image/png", "image/webp"}

\* src/lib/file-storage.ts:76-78.
isValidFileSize(size, maxSize) == size <= maxSize

\* The k-th name a request generates: token stands for its timestamps and
\* random strings.
Fresh(token, k) == <<token, ToString(k)>>

\* src/lib/file-storage.ts:25-50: the URL fileStorage.saveFile gives the k-th
\* file of a request.
SavedFileUrl(sess, subfolder, token, k) ==
  UploadsMarker \o <<subfolder, "/">> \o sess \o <<"-">> \o Fresh(token, k)

\* The URL of the k-th file a request stores in Supabase Storage.
StoredFileUrl(sess, bucket, token, k) ==
  StorageUrlBase \o <<bucket, "/">> \o sess \o <<"/">> \o Fresh(token, k)

\* src/app/api/references/[id]/route.ts:43-120, src/lib/file-storage.ts:448-492:
\* PATCH /api/references/[id]; file is <<>> or a list of one file, type is
\* "" when the form has none, saveFails says that saving the file throws,
\* dbFails that db.updateReference returns null.
ReferencePATCH(sess, id, file, type, description, token, saveFails, dbFails) ==
  /\ LET i == IndexOf(references, id)
         op == "PATCH reference"
         updated == [references[i] EXCEPT
                       !.description = IF description # Undefined THEN description ELSE @,
                       !.type = IF type \in ValidReferenceTypes THEN type ELSE @,
                       !.fileUrl = IF file # <<>>
                                   THEN StoredFileUrl(sess, "references", token, 1)
                                   ELSE @]
     IN  IF ~Truthy(sess)
         THEN Reply(op, sess, id, 401, <<>>) /\ UNCHANGED references
         ELSE IF i = 0
         THEN Reply(op, sess, id, 404, <<>>) /\ UNCHANGED references
         ELSE IF Forbidden(references[i], sess)
         THEN Reply(op, sess, id, 403, <<>>) /\ UNCHANGED references
         ELSE IF file # <<>> /\ ~isValidImageType(file[1].type)
         THEN Reply(op, sess, id, 400, <<>>) /\ UNCHANGED references
         ELSE IF file # <<>> /\ ~isValidFileSize(file[1].size, MAX_PHOTO_SIZE)
         THEN Reply(op, sess, id, 400, <<>>) /\ UNCHANGED references
         ELSE IF file # <<>> /\ saveFails
         THEN Reply(op, sess, id, 500, <<>>) /\ UNCHANGED references
         ELSE IF dbFails
         THEN Reply(op, sess, id, 200, <<>>) /\ UNCHANGED references
         ELSE /\ references' = [references EXCEPT ![i] = updated]
              /\ Reply(op, sess, id, 200, <<updated>>)
  /\ UNCHANGED <<generateState, avatars, thumbnails, files>>

\* src/lib/file-storage.ts:495-541, src/unnamed/part_008:192-220: the row
\* db.createAvatar inserts under the id newId.
createAvatar(newId, userId, name, urls, token) ==
  [id |-> newId, userId |-> userId, name |-> name,
   photos |-> [k \in 1..Len(urls) |-> [id |-> <<"p">> \o Fresh(token, k), url |-> urls[k]]]]

\* src/app/api/avatars/route.ts:9-94: POST /api/avatars; newId is the id
\* the database gives the row, saveFails says that saving the first file
\* throws, dbFails that the insert fails.
AvatarPOST(sess, name, newFiles, newId, token, saveFails, dbFails) ==
  /\ LET op == "POST avatar"
         n == Len(newFiles)
         urls == [k \in 1..n |-> SavedFileUrl(sess, "avatars", token, k)]
         row == createAvatar(newId, sess, Trim(name), urls, token)
     IN  IF ~Truthy(sess)
         THEN Reply(op, sess, Undefined, 401, <<>>) /\ UNCHANGED <<avatars, files>>
         ELSE IF ~Truthy(name) \/ Trim(name) = <<>>
         THEN Reply(op, sess, Undefined, 400, <<>>) /\ UNCHANGED <<avatars, files>>
         ELSE IF n < MIN_PHOTOS
         THEN Reply(op, sess, Undefined, 400, <<>>) /\ UNCHANGED <<avatars, files>>
         ELSE IF n > MAX_PHOTOS
         THEN Reply(op, sess, Undefined, 400, <<>>) /\ UNCHANGED <<avatars, files>>
         ELSE IF \/ \E k \in 1..n : ~isValidImageType(newFiles[k].type)
                 \/ \E k \in 1..n : ~isValidFileSize(newFiles[k].size, MAX_PHOTO_SIZE)
         THEN Reply(op, sess, Undefined, 400, <<>>) /\ UNCHANGED <<avatars, files>>
         ELSE /\ files' = files \cup {urls[k] : k \in (IF saveFails THEN 2 ELSE 1)..n}
              /\ IF saveFails \/ dbFails
                 THEN Reply(op, sess, Undefined, 500, <<>>) /\ UNCHANGED avatars
                 ELSE /\ avatars' = Append(avatars, row)
                      /\ Reply(op, sess, row.id, 201, <<row>>)
  /\ UNCHANGED <<generateState, references, thumbnails>>

\* src/lib/file-storage.ts:596-630, src/unnamed/part_008:236-251: the row
\* after db.updateAvatar: the Supabase version leaves out an empty name.
updateAvatar(row, name, photos) ==
  [row EXCEPT !.name = IF supabaseConfigured /\ name = <<>> THEN @ ELSE name,
              !.photos = photos]

\* A variant of PhotoCountError without the upper limit.
PhotoCountError_NoMaximum(photos) ==
  IF Len(photos) < MIN_PHOTOS THEN [NoReply EXCEPT !.status = 400] ELSE NoReply

\* src/app/api/avatars/[id]/route.ts:134-148: the response that rejects the
\* photo list of an update, NoReply when the list is accepted.
PhotoCountError(photos) ==
  IF Len(photos) < MIN_PHOTOS THEN [NoReply EXCEPT !.status = 400]
  ELSE IF Len(photos) > MAX_PHOTOS THEN [NoReply EXCEPT !.status = 400]
  ELSE NoReply

\* The photo list with the new photos ahead of the stored ones.
UpdatedPhotos_NewFirst(photos, deletePhotos, added) ==
  added \o SelectSeq(photos, LAMBDA ph : ph.id \notin deletePhotos)

\* src/app/api/avatars/[id]/route.ts:76-132: updatedPhotos, the stored
\* photos without the deleted ones, followed by the new photo objects.
UpdatedPhotos(photos, deletePhotos, added) ==
  SelectSeq(photos, LAMBDA ph : ph.id \notin deletePhotos) \o added

\* src/app/api/avatars/[id]/route.ts:47-164: PUT /api/avatars/[id];
\* deletePhotos is the set of photo ids of the form field, saveFails says
\* that saving a new photo throws, dbFails that db.updateAvatar returns null.
AvatarPUT(sess, id, name, deletePhotos, newFiles, token, saveFails, dbFails) ==
  /\ LET op == "PUT avatar"
         a == getAvatarById(id)
         n == Len(newFiles)
         doomed == {k \in 1..Len(a.photos) : a.photos[k].id \in deletePhotos}
         added == [k \in 1..n |-> [id |-> <<"p">> \o Fresh(token, k),
                                   url |-> StoredFileUrl(sess, "avatars", token, k)]]
         updatedPhotos == UpdatedPhotos(a.photos, deletePhotos, added)
         updated == updateAvatar(a, IF Truthy(name) THEN Trim(name) ELSE a.name,
                                 updatedPhotos)
     IN  IF ~Truthy(sess)
         THEN Reply(op, sess, id, 401, <<>>) /\ UNCHANGED <<avatars, files>>
         ELSE IF a = NoAvatar
         THEN Reply(op, sess, id, 404, <<>>) /\ UNCHANGED <<avatars, files>>
         ELSE IF Forbidden(a, sess)
         THEN Reply(op, sess, id, 403, <<>>) /\ UNCHANGED <<avatars, files>>
         ELSE /\ files' = deleteFile({a.photos[k].url : k \in doomed})
              /\ IF \/ \E k \in 1..n : ~isValidImageType(newFiles[k].type)
                    \/ \E k \in 1..n : ~isValidFileSize(newFiles[k].size, MAX_PHOTO_SIZE)
                 THEN Reply(op, sess, id, 400, <<>>) /\ UNCHANGED avatars
                 ELSE IF n > 0 /\ saveFails
                 THEN Reply(op, sess, id, 500, <<>>) /\ UNCHANGED avatars
                 ELSE IF PhotoCountError(updatedPhotos) # NoReply
                 THEN Reply(op, sess, id, PhotoCountError(updatedPhotos).status, <<>>)
                      /\ UNCHANGED avatars
                 ELSE IF dbFails
                 THEN Reply(op, sess, id, 200, <<>>) /\ UNCHANGED avatars
                 ELSE /\ avatars' = [avatars EXCEPT ![IndexOf(avatars, id)] = updated]
                      /\ Reply(op, sess, id, 200, <<updated>>)
  /\ UNCHANGED <<generateState, references, thumbnails>>

\* src/unnamed/part_003:538-556: a run of POST /api/generate by sess, for a
\* stored avatar and a list of reference ids, in which every step succeeded:
\* its record is written.
POST_Recorded(sess, avatarId, refs) ==
  /\ Truthy(sess)
  /\ getAvatarById(avatarId) # NoAvatar
  /\ thumbnails' = createThumbnail(sess, avatarId, getAvatarById(avatarId).name,
                                   <<"prompt">>, <<"A", "I">>, ProviderUrl, refs, Undefined)
  /\ Reply("POST generate", sess, avatarId, 200, <<>>)
  /\ UNCHANGED <<generateState, avatars, references, files>>

(* ----------------------- the entity routes alone ---------------------- *)

MaxThumbnails == 2

StoredAvatarIds == {avatars[i].id : i \in 1..Len(avatars)}
StoredReferenceIds == {references[i].id : i \in 1..Len(references)}

\* The requests on stored entities: the by-id routes and the generation
\* runs that write the history.
NextEntities ==
  \/ \E id \in StoredAvatarIds :
       /\ Len(thumbnails) < MaxThumbnails
       /\ POST_Recorded(User1, id, << <<"r2">>, <<"r1">> >>)
  \/ \E sess \in {User1, User2}, id \in 1..(MaxThumbnails + 1) : ThumbnailGET(sess, id)
  \/ \E sess \in {User1, User2}, id \in 1..(MaxThumbnails + 1), dbFails \in BOOLEAN :
       ThumbnailDELETE(sess, id, dbFails)
  \/ \E sess \in {Undefined, User1, User2} : AvatarGET(sess, Avatar1)
  \/ \E sess \in {User1, User2}, name \in {Undefined, <<"Z", "o", "e", " ">>} :
       AvatarPUT(sess, Avatar1, name, {}, <<>>, "g", FALSE, FALSE)
  \/ \E sess \in {User1, User2}, dbFails \in BOOLEAN : AvatarDELETE(sess, Avatar1, dbFails)
  \/ \E sess \in {User1, User2} : ReferenceDELETE(sess, <<"r1">>, FALSE)
  \/ \E sess \in {User1, User2} :
       ReferencePATCH(sess, <<"r1">>, <<GoodFile>>, "icon", <<"d">>, "g", FALSE, FALSE)

SpecEntities == Init /\ [][NextEntities]_vars

(* ------------------- avatar creation and update alone ----------------- *)

\* The ids of the stored photos; the id of a new photo is a fresh random
\* string (src/app/api/avatars/[id]/route.ts:124), so a request's token is
\* one that no stored photo id carries.
StoredPhotoIds ==
  UNION {{avatars[j].photos[k].id : k \in 1..Len(avatars[j].photos)} : j \in 1..Len(avatars)}
UnusedTokens == {t \in {"h", "i"} : <<"p">> \o Fresh(t, 1) \notin StoredPhotoIds}

\* The requests that create avatars and update the first one.
NextAvatars ==
  \/ \E sess \in {Undefined, User2}, name \in {<<" ">>, <<"Z", "o", "e", " ">>},
        n \in {2, 3, 10, 11}, odd \in {"none", "size"}, newId \in {<<"a2">>} \ StoredAvatarIds,
        saveFails \in BOOLEAN, dbFails \in BOOLEAN :
       AvatarPOST(sess, name, Files(n, odd), newId, "g", saveFails, dbFails)
  \/ \E sess \in {User1, User2}, id \in {Avatar1, <<"a9">>},
        deletePhotos \in {{}, {<<"p", "1">>}}, n \in {0, 1, 7}, odd \in {"none", "type"},
        token \in UnusedTokens, saveFails \in BOOLEAN, dbFails \in BOOLEAN :
       AvatarPUT(sess, id, Undefined, deletePhotos, Files(n, odd), token, saveFails, dbFails)

SpecAvatars == Init /\ [][NextAvatars]_vars

(* --------------------- the prompt composer on its own ----------------- *)

\* The arguments handed to the composers: text ideas, lists of reference
\* ids and additional prompts with and without blanks around them.
PromptTextIdeas == {<<>>, <<"A", "I">>, <<"5", " ", "t", "i", "p", "s">>}
PromptReferences == SeqsUpTo({<<"r1">>, <<"r9">>}, MaxRefs)
PromptAdditionalPrompts ==
  {Undefined, <<>>, <<" ">>, <<" ", "\t">>, <<"g", "o">>, <<" ", "g", "o">>,
   <<"g", "o", " ">>, <<" ", "g", " ", "o", "\n">>}

\* src/unnamed/part_003:225-240: generateOptimizedPrompt is called.
generateOptimizedPrompt_Apply(textIdea, refs, additionalPrompt) ==
  /\ ~probe.applied
  /\ probe' = [applied |-> TRUE,
               input |-> [version |-> "part_003", textIdea |-> textIdea, references |-> refs,
                          additionalPrompt |-> additionalPrompt],
               result |-> generateOptimizedPrompt(textIdea, Photo("1").url, refs,
                                                  additionalPrompt)]
  /\ UNCHANGED <<entityState, supabaseConfigured, avatars, references, thumbnails, objects,
                 handler, pc, session, body, locals, response, calls>>

\* src/app/api/generate/route.ts:23-32: its generateOptimizedPrompt, which
\* takes no additional prompt, is called.
RouteGenerateOptimizedPrompt_Apply(textIdea, refs) ==
  /\ ~probe.applied
  /\ probe' = [applied |-> TRUE,
               input |-> [version |-> "route", textIdea |-> textIdea, references |-> refs,
                          additionalPrompt |-> Undefined],
               result |-> RouteGenerateOptimizedPrompt(textIdea, Photo("1").url, refs)]
  /\ UNCHANGED <<entityState, supabaseConfigured, avatars, references, thumbnails, objects,
                 handler, pc, session, body, locals, response, calls>>

NextPrompt ==
  \/ \E textIdea \in PromptTextIdeas, refs \in PromptReferences,
        additionalPrompt \in PromptAdditionalPrompts :
       generateOptimizedPrompt_Apply(textIdea, refs, additionalPrompt)
  \/ \E textIdea \in PromptTextIdeas, refs \in PromptReferences :
       RouteGenerateOptimizedPrompt_Apply(textIdea, refs)

SpecPrompt == Init /\ [][NextPrompt]_vars

(* --------------------- uploads that run side by side ------------------ *)

MaxUploads == 2

\* What Date.now() and Math.random().toString(36).substring(2, 15) give.
Timestamps == {"1700000000000", "1700000000001"}
RandomStrs == {"k3x9q", "p0d7m"}

\* src/lib/supabase-storage.ts:88-90, 223-225: the path of an upload.
StoragePath(userId, timestamp, randomStr, extension) ==
  userId \o <<"/", timestamp, "-", randomStr, ".">> \o extension

\* src/lib/supabase-storage.ts:74-90: a request of userId has downloaded its
\* image and makes the path it will upload to.
uploadOpenRouterImageToStorage_Path(userId, timestamp, randomStr) ==
  /\ Len(uploads) < MaxUploads
  /\ uploads' = Append(uploads, [userId |-> userId,
                                 path |-> StoragePath(userId, timestamp, randomStr,
                                                      <<"p", "n", "g">>),
                                 state |-> "uploading", overwrote |-> FALSE])
  /\ UNCHANGED <<supabaseConfigured, avatars, references, thumbnails, objects, handler, pc,
                 session, body, locals, response, calls, probe, files, reply, accounts>>

\* src/lib/supabase-storage.ts:92-95, 122-178: uploadFileWithRetry of the
\* k-th upload, with upsert: true; stored says whether one of its attempts
\* went through, which none does without a storage client.  An object
\* already at the path is replaced.
uploadFileWithRetry_Upsert(k, stored) ==
  /\ uploads[k].state = "uploading"
  /\ IF stored /\ supabaseConfigured
     THEN /\ objects' = objects \cup {uploads[k].path}
          /\ uploads' = [uploads EXCEPT ![k].state = "stored",
                                        ![k].overwrote = uploads[k].path \in objects]
     ELSE /\ objects' = objects
          /\ uploads' = [uploads EXCEPT ![k].state = "failed"]
  /\ UNCHANGED <<supabaseConfigured, avatars, references, thumbnails, handler, pc,
                 session, body, locals, response, calls, probe, files, reply, accounts>>

NextPaths ==
  \/ \E userId \in {User1, User2}, timestamp \in Timestamps, randomStr \in RandomStrs :
       uploadOpenRouterImageToStorage_Path(userId, timestamp, randomStr)
  \/ \E k \in 1..Len(uploads), stored \in BOOLEAN : uploadFileWithRetry_Upsert(k, stored)

SpecPaths == Init /\ [][NextPaths]_vars

(* ------------------------------ registration -------------------------- *)

MaxRegistrations == 2
MinPasswordLength == 8

\* String.prototype.toLowerCase on the letters the model uses.
toLowerCase(s) ==
  [k \in 1..Len(s) |-> IF s[k] = "A" THEN "a" ELSE IF s[k] = "B" THEN "b" ELSE s[k]]

\* src/app/api/auth/register/route.ts:11: /^[^\s@]+@[^\s@]+\.[^\s@]+$/ matches
\* the email.
emailRegex_test(email) ==
  \E i \in 2..Len(email), j \in 4..(Len(email) - 1) :
    /\ i + 1 < j
    /\ email[i] = "@" /\ email[j] = "."
    /\ \A k \in 1..Len(email) : k # i => ~IsSpace(email[k]) /\ email[k] # "@"

\* src/unnamed/part_008:62-65, src/lib/file-storage.ts:161-191: the stored
\* users with the email, compared in lower case.
findUserByEmail(email) ==
  {k \in 1..Len(users) : toLowerCase(users[k].email) = toLowerCase(email)}

\* src/unnamed/part_008:73-91, src/lib/file-storage.ts:225-266: whether
\* createUser awaits between its check of the email and its insert: the
\* in-memory module pushes in the continuation of the check; the module of
\* file-storage.ts awaits the insert query, or delay(50), first.
CreateUserAwaitsBeforeInsert(dbModule) == dbModule = "file-storage"

\* What a registration request leaves alone.
registrationFrame ==
  <<supabaseConfigured, avatars, references, thumbnails, objects, handler, pc, session,
    body, locals, response, calls, probe, files, reply, uploads>>

\* The k-th registration goes on to position p, or ends with status st.
Register_Goto(k, p) == registrations' = [registrations EXCEPT ![k].pc = p]
Register_Respond(k, st) ==
  registrations' = [registrations EXCEPT ![k].pc = "done", ![k].status = st]

\* src/app/api/auth/register/route.ts:5-25: a request arrives and its email
\* and password are validated; dbModule is the module behind @/lib/db, the
\* same for every request.
RegisterPOST_Validating(dbModule, email, password) ==
  /\ Len(registrations) < MaxRegistrations
  /\ \A k \in 1..Len(registrations) : registrations[k].dbModule = dbModule
  /\ registrations' =
       Append(registrations,
              IF ~Truthy(email) \/ ~emailRegex_test(email)
                 \/ ~Truthy(password) \/ Len(password) < MinPasswordLength
              THEN [dbModule |-> dbModule, email |-> email, pc |-> "done", status |-> 400]
              ELSE [dbModule |-> dbModule, email |-> email, pc |-> "finding", status |-> 0])
  /\ UNCHANGED <<users, registrationFrame>>

\* src/app/api/auth/register/route.ts:27-37: the check of the route; the
\* password is hashed next.
RegisterPOST_Finding(k) ==
  /\ registrations[k].pc = "finding"
  /\ IF findUserByEmail(registrations[k].email) # {}
     THEN Register_Respond(k, 409)
     ELSE Register_Goto(k, "creating")
  /\ UNCHANGED <<users, registrationFrame>>

\* The user createUser stores for the k-th registration.
newUser(k) == [email |-> toLowerCase(registrations[k].email), request |-> k]

\* src/unnamed/part_008:73-91, src/lib/file-storage.ts:225-239, src/app/api/
\* auth/register/route.ts:39-61: db.createUser checks the email again and
\* throws 'Email already exists', answered 409, when a user has it.
RegisterPOST_Creating(k) ==
  /\ registrations[k].pc = "creating"
  /\ IF findUserByEmail(registrations[k].email) # {}
     THEN Register_Respond(k, 409) /\ UNCHANGED users
     ELSE IF CreateUserAwaitsBeforeInsert(registrations[k].dbModule)
     THEN Register_Goto(k, "inserting") /\ UNCHANGED users
     ELSE users' = Append(users, newUser(k)) /\ Register_Respond(k, 201)
  /\ UNCHANGED registrationFrame

\* src/lib/file-storage.ts:241-265, src/app/api/auth/register/route.ts:42-66:
\* the user is inserted; insertFails says that the insert query returns an
\* error, which only a storage client can.
RegisterPOST_Inserting(k, insertFails) ==
  /\ registrations[k].pc = "inserting"
  /\ IF insertFails /\ supabaseConfigured
     THEN Register_Respond(k, 500) /\ UNCHANGED users
     ELSE users' = Append(users, newUser(k)) /\ Register_Respond(k, 201)
  /\ UNCHANGED registrationFrame

\* The emails and passwords of the requests.
RegisterEmails == {Undefined, <<"a", "b", ".", "c">>, <<"a", "@", "b", ".", "c">>,
                   <<"A", "@", "b", ".", "c">>, <<"b", "@", "b", ".", "c">>}
RegisterPasswords == {Undefined, Rep("x", MinPasswordLength - 1), Rep("x", MinPasswordLength)}

NextRegister ==
  \/ \E dbModule \in {"part_008", "file-storage"}, email \in RegisterEmails,
        password \in RegisterPasswords :
       RegisterPOST_Validating(dbModule, email, password)
  \/ \E k \in 1..Len(registrations) : RegisterPOST_Finding(k)
  \/ \E k \in 1..Len(registrations) : RegisterPOST_Creating(k)
  \/ \E k \in 1..Len(registrations), insertFails \in BOOLEAN :
       RegisterPOST_Inserting(k, insertFails)

SpecRegister == Init /\ [][NextRegister]_vars

(* -------------------------------- claims ------------------------------ *)

\* The upload of the run returned a storage URL.
UploadSucceeded == upload.url # Undefined

\* db.createThumbnail was called and threw: it wrote no record.
CreateThumbnailThrew == calls.createThumbnail = 1 /\ thumbnails = <<>>

\* C1: when the provider call and the storage upload succeed and
\* createThumbnail throws, the response is {success:true, thumbnailUrl: the
\* storage URL}.
C1_PersistenceFailureKeepsSuccess ==
  (pc = "done" /\ UploadSucceeded /\ CreateThumbnailThrew)
    => response = Success(upload.url)

\* The request of the run fails a validation rule of the specification.
InvalidRequest(b) ==
  \/ ~Truthy(b.avatarId)
  \/ ~Truthy(b.textIdea)
  \/ Trim(b.textIdea) = <<>>
  \/ Len(b.textIdea) > 50
  \/ (Truthy(b.additionalPrompt) /\ Len(b.additionalPrompt) > 500)

\* C2: an authenticated request with a missing avatar id, a blank or too long
\* text idea or a too long additional prompt is answered 400, and the run
\* makes no read, no provider call, no upload and no createThumbnail call.
C2_InvalidRequestRejectedBeforeAnyCall ==
  (handler # "none" /\ Truthy(session) /\ InvalidRequest(body))
    => /\ pc = "done"
       /\ ~response.success
       /\ response.status = 400
       /\ calls = NoCalls
       /\ thumbnails = <<>>
       /\ objects = {}

\* C3: when the provider returned a usable URL and the upload failed on all
\* three attempts, the response is {success:true, thumbnailUrl: the provider
\* URL}.
C3_UploadFailureFallsBackToProviderUrl ==
  (/\ pc = "done"
   /\ Truthy(thumbnailUrl)
   /\ (StartsWith(thumbnailUrl, HttpPrefix) \/ StartsWith(thumbnailUrl, DataImagePrefix))
   /\ upload.threw
   /\ calls.storageUpload = 3)
    => response = Success(thumbnailUrl)

\* The last error of the upload is a storage error that is not of the
\* service-unavailable class.
LastErrorNotTransient ==
  /\ upload.error \in StorageErrors
  /\ ~Includes(upload.error, MsgServiceUnavailable)
  /\ ~Includes(upload.error, Msg503)
  /\ ~Includes(upload.error, MsgNetworkError)

\* C4: a storage error that is not of the service-unavailable class makes
\* the upload fail after a single attempt, with no second attempt and no
\* backoff wait.
C4_NonTransientFailsAfterOneAttempt ==
  (calls.storageUpload >= 1 /\ LastErrorNotTransient)
    => upload.threw /\ calls.storageUpload = 1 /\ upload.waits = <<>>

\* uploadFileWithRetry was entered: the download gave a file and a path.
UploadEntered == upload.path # Undefined

\* What C5 says of the attempts and of the result of a success.
C5_AttemptsAndResult ==
  /\ calls.storageUpload <= 3
  /\ pc = "uploading" => ~UploadSucceeded /\ calls.storageUpload = upload.attempt - 1
  /\ UploadSucceeded =>
       /\ ~upload.threw
       /\ upload.url = StorageUrlBase \o upload.path
       /\ upload.resultPath = upload.path
       /\ upload.path \in objects
       /\ calls.storageUpload = upload.attempt

\* C5, as stated: at most three attempts, the URL and path of the first
\* attempt that succeeds, no attempt after a success, and a throw only after
\* the third consecutive failure.
C5_ThrowsOnlyAfterThirdFailure ==
  /\ C5_AttemptsAndResult
  /\ (UploadEntered /\ upload.threw) => calls.storageUpload = 3

\* C5, amended: as stated, except that without a storage client
\* uploadFileWithRetry throws at once, before any attempt.
C5_AtMostThreeAttempts ==
  /\ C5_AttemptsAndResult
  /\ (UploadEntered /\ upload.threw) =>
       \/ calls.storageUpload = 3
       \/ ~supabaseConfigured /\ calls.storageUpload = 0

C5_Witness ==
  /\ pc = "uploaded"
  /\ UploadSucceeded
  /\ calls.storageUpload = 3
  /\ upload.error = MsgServicoIndisponivel

\* C6: a run sends the provider request at most once, and a provider call
\* that failed is not issued again: the run is over.
C6_ProviderCalledAtMostOnce ==
  /\ calls.provider <= 1
  /\ calls.generationError # <<>> => pc = "done"

C6_Witness ==
  /\ pc = "done"
  /\ calls.provider = 1
  /\ calls.generationError = ErrGenerate

\* C7: when the provider call fails, by a non-success response or by failing
\* to extract an image, the run ends with status 500 and the generic message
\* and neither uploads nor records anything.
C7_GenerationFailureIsTerminal ==
  (calls.provider >= 1 /\ calls.generationError # <<>>)
    => /\ pc = "done"
       /\ response = [status |-> 500, success |-> FALSE, thumbnailUrl |-> Undefined,
                      error |-> "Falha na geracao, tente novamente"]
       /\ calls.uploadToStorage = 0
       /\ calls.storageUpload = 0
       /\ calls.createThumbnail = 0
       /\ thumbnails = <<>>
       /\ objects = {}

C7_Witness ==
  /\ pc = "done"
  /\ calls.provider = 1
  /\ calls.generationError = ErrExtract
  /\ response.status = 500

\* C8: for a success response whose choices are missing or empty,
\* callOpenRouterAPI throws the image-extraction error, never an unrelated
\* runtime exception.
C8_NoChoicesIsExtractionFailure ==
  (/\ probe.applied
   /\ probe.input.kind = "http"
   /\ probe.input.ok
   /\ (~probe.input.hasChoices \/ probe.input.choices = <<>>))
    => probe.result.threw /\ probe.result.error \in {ErrNoChoices, ErrExtract}

\* An entry of message.images has one of the two known shapes.
KnownShape(img) ==
  \/ img.type = "image_url" /\ Truthy(img.url)
  \/ img.type = "image" /\ Truthy(img.data)

\* What C9 says callOpenRouterAPI returns for an entry of a known shape.
ExpectedImage(img) ==
  IF img.type = "image_url" /\ Truthy(img.url) THEN img.url
  ELSE IF StartsWith(img.data, DataPrefix) THEN img.data
  ELSE IF StartsWith(img.data, PngSignature) THEN PngDataPrefix \o img.data
  ELSE IF StartsWith(img.data, JpegSignature) THEN JpegDataPrefix \o img.data
  ELSE PngDataPrefix \o img.data

\* The probe's response is a success whose first choice carries an images
\* list.
ProbeHasImages ==
  /\ probe.applied
  /\ probe.input.kind = "http"
  /\ probe.input.ok
  /\ probe.input.hasChoices
  /\ probe.input.choices # <<>>
  /\ probe.input.choices[1].hasMessage
  /\ probe.input.choices[1].hasImages

\* C9: for a success response whose first choice carries an images list,
\* callOpenRouterAPI returns the image of the first entry of a known shape:
\* the URL, prefixed data unchanged, unprefixed data with the PNG or JPEG
\* prefix of its signature, PNG by default; it throws the extraction error
\* when no entry has a known shape.
C9_FirstKnownShapeIsReturned ==
  ProbeHasImages =>
    LET images == probe.input.choices[1].images
        known == {i \in 1..Len(images) : KnownShape(images[i])}
    IN  IF known = {}
        THEN probe.result = [threw |-> TRUE, value |-> Undefined, error |-> ErrExtract]
        ELSE probe.result = [threw |-> FALSE, value |-> ExpectedImage(images[Min(known)]),
                             error |-> <<>>]

C9_Witness ==
  /\ ProbeHasImages
  /\ Len(probe.input.choices[1].images) = 2
  /\ probe.input.choices[1].images[1].type = "text"
  /\ probe.result.value = JpegDataPrefix \o JpegSignature \o Payload

\* The photo the request selects exists in the avatar: the one of
\* avatarPhotoId, else the one at avatarPhotoIndex, else the first.
SelectedPhotoExists(av, b) ==
  IF Truthy(b.avatarPhotoId)
  THEN \E i \in 1..Len(av.photos) : av.photos[i].id = b.avatarPhotoId
  ELSE IF b.avatarPhotoIndex.isNumber
       THEN b.avatarPhotoIndex.value >= 0 /\ b.avatarPhotoIndex.value < Len(av.photos)
       ELSE Len(av.photos) > 0

\* C10: when the avatar exists and the selected photo does not, the run
\* fails with AssetNotFound and makes no provider call, upload or
\* createThumbnail call.
C10_MissingPhotoIsAssetNotFound ==
  (handler = "POST" /\ avatar # NoAvatar /\ ~SelectedPhotoExists(avatar, body))
    => /\ pc = "done"
       /\ ~response.success
       /\ response.status = 404
       /\ calls.provider = 0
       /\ calls.uploadToStorage = 0
       /\ calls.createThumbnail = 0

\* C11: in the provider request, a source image whose conversion to a data
\* URL failed has an entry that carries its original URL, and every other
\* source image has its data URL entry: one entry per source image, in order.
C11_FailedConversionKeepsOriginalUrl ==
  (handler = "POST" /\ pc = "awaitingProvider")
    => LET images == (IF Truthy(avatarPhotoUrl) THEN <<avatarPhotoUrl>> ELSE <<>>)
                     \o referenceUrls
       IN  /\ Len(content) = 1 + Len(images)
           /\ \A i \in 1..Len(images) :
                /\ content[i + 1].type = "image_url"
                /\ IF calls.conversionFailed[i]
                   THEN content[i + 1].url = images[i]
                   ELSE StartsWith(content[i + 1].url, DataPrefix)

\* The indexes of the reference ids of the request that resolve to a row.
ResolvingIndexes ==
  {i \in 1..Len(body.references) :
     \E j \in 1..Len(references) : references[j].id = body.references[i]}

\* C12: the reference URLs handed to the provider call are the fileUrl of
\* each reference id of the request that resolves, in request order; ids that
\* resolve to nothing are dropped, and the run goes on to the provider call
\* without a failure response, also when no id resolves.
C12_StaleReferencesAreDropped ==
  (handler = "POST" /\ calls.getReferenceById > 0 /\ calls.provider = 0
     /\ calls.generationError = <<>>)
    => /\ pc = "generating"
       /\ response = NoResponse
       /\ Len(referenceUrls) = Cardinality(ResolvingIndexes)
       /\ \A i \in ResolvingIndexes :
            LET k == Cardinality({j \in ResolvingIndexes : j <= i})
            IN  \E r \in 1..Len(references) :
                  /\ references[r].id = body.references[i]
                  /\ referenceUrls[k] = references[r].fileUrl

C12_Witness ==
  /\ handler = "POST"
  /\ pc = "generating"
  /\ body.references = << <<"r9">>, <<"r2">> >>
  /\ referenceUrls = << ReferenceUrlBase \o <<"2">> >>

\* C13: a run in which the upload succeeded calls createThumbnail exactly
\* once when it ends; a success response of the part_003 handler comes only
\* after that call; and the one record written carries the session user id,
\* the avatar id and name, the composed prompt, the text idea, the reference
\* ids of the request and the image URL the response returns.
C13_OneRecordPerSuccessfulRun ==
  /\ (pc = "done" /\ UploadSucceeded) => calls.createThumbnail = 1
  /\ (handler = "POST" /\ response.success)
       => calls.createThumbnail = 1 /\ Len(thumbnails) = 1
  /\ Len(thumbnails) <= 1
  /\ thumbnails # <<>> =>
       /\ pc = "done"
       /\ calls.createThumbnail = 1
       /\ thumbnails[1].userId = session
       /\ thumbnails[1].avatarId = body.avatarId
       /\ thumbnails[1].avatarName = avatar.name
       /\ \E i \in 1..Len(avatars) :
            avatars[i].id = body.avatarId /\ avatars[i].name = thumbnails[1].avatarName
       /\ thumbnails[1].prompt = optimizedPrompt
       /\ thumbnails[1].textIdea = body.textIdea
       /\ thumbnails[1].references = body.references
       /\ response = [status |-> 200, success |-> TRUE,
                      thumbnailUrl |-> thumbnails[1].thumbnailUrl, error |-> "none"]

C13_Witness ==
  /\ handler = "POST"
  /\ pc = "done"
  /\ UploadSucceeded
  /\ response.success
  /\ response.thumbnailUrl = upload.url
  /\ Len(thumbnails) = 1
  /\ thumbnails[1].references = << <<"r1">>, <<"r2">> >>
  /\ Len(avatar.photos) = 3

\* The upload of the run is under way: it has neither returned nor thrown.
UploadInProgress == pc \in {"downloading", "uploading"}

C15_SizeLimitBoundary ==
  (probe.applied /\ probe.input.kind \in {"data", "ok"})
    => IF probe.input.size <= 10 * 1024 * 1024
       THEN /\ ~probe.result.threw
            /\ probe.result.value.size = probe.input.size
            /\ upload.path # Undefined
       ELSE /\ probe.result = [threw |-> TRUE, value |-> Undefined,
                               error |-> <<"A", "r", "q", "u", "i", "v", "o", " ", "m",
                                           "u", "i", "t", "o", " ", "g", "r", "a", "n",
                                           "d", "e">>]
            /\ pc = "uploaded"
            /\ upload.threw
            /\ upload.error = probe.result.error
            /\ upload.path = Undefined
            /\ calls.storageUpload = 0
            /\ objects = {}

\* A data URL of exactly the limit's size was accepted and stored.
C15_Witness ==
  /\ probe.applied
  /\ probe.input.kind = "data"
  /\ probe.input.size = 10485760
  /\ ~probe.result.threw
  /\ upload.path \in objects

\* The owners of the rows the request of a reply named, in the table its
\* route reads.
RequestedOwners(r) ==
  LET table == IF r.op \in {"GET thumbnail", "DELETE thumbnail"} THEN thumbnails
               ELSE IF r.op \in {"GET avatar", "PUT avatar", "DELETE avatar"} THEN avatars
               ELSE IF r.op \in {"DELETE reference", "PATCH reference"} THEN references
               ELSE <<>>
  IN  {table[i].userId : i \in {j \in 1..Len(table) : table[j].id = r.id}}

\* C16: a by-id request (GET, DELETE of a thumbnail; GET, PUT, DELETE of an
\* avatar; DELETE, PATCH of a reference) of a session user who is not the
\* owner of the stored entity is answered with 403 and no data, and leaves
\* every row and every file as it was.
C16_ForeignOwnerIsForbidden ==
  [][(/\ Truthy(reply'.user)
      /\ RequestedOwners(reply') # {}
      /\ reply'.user \notin RequestedOwners(reply'))
     => /\ reply'.status = 403
        /\ reply'.data = <<>>
        /\ UNCHANGED <<avatars, references, thumbnails, files>>]_vars

\* User2 asked to delete a thumbnail of User1 and was refused.
C16_Witness ==
  /\ reply.op = "DELETE thumbnail"
  /\ reply.user = User2
  /\ reply.status = 403
  /\ \E i \in 1..Len(thumbnails) : thumbnails[i].id = reply.id /\ thumbnails[i].userId = User1

\* C17: whatever avatar creations and updates were requested, accepted or
\* rejected, every stored avatar holds at least 3 and at most 10 photos.
C17_AvatarHoldsThreeToTenPhotos ==
  \A i \in 1..Len(avatars) :
    Len(avatars[i].photos) >= MIN_PHOTOS /\ Len(avatars[i].photos) <= MAX_PHOTOS

\* An avatar was created and, after rejected and accepted requests, an
\* update has filled another one up to 10 photos.
C17_Witness ==
  /\ Len(avatars) = 2
  /\ reply.op = "PUT avatar"
  /\ reply.status = 200
  /\ reply.data # <<>>
  /\ Len(getAvatarById(reply.id).photos) = MAX_PHOTOS

\* The record of the id is in the table before and after the step unless
\* the step is an accepted DELETE /api/thumbnails/[id] of that id.
DisappearsOnlyByDelete ==
  \A i \in 1..Len(thumbnails) :
    \/ \E j \in 1..Len(thumbnails') : thumbnails'[j].id = thumbnails[i].id
    \/ /\ reply'.op = "DELETE thumbnail"
       /\ reply'.id = thumbnails[i].id
       /\ reply'.status = 200

OtherThumbnails(table, id) == SelectSeq(table, LAMBDA t : t.id # id)

\* C19: a thumbnail delete, by the route or by db.deleteThumbnail, takes
\* away at most the record of its id: the other records, the avatars, the
\* references and the files stay as they were, an accepted delete leaves no
\* record of the id, and a delete of an id that is not stored changes
\* nothing.
C19_DeleteRemovesOnlyThatRecord ==
  [][/\ reply'.op = "DELETE thumbnail"
        => /\ UNCHANGED <<avatars, references, files>>
           /\ OtherThumbnails(thumbnails', reply'.id) = OtherThumbnails(thumbnails, reply'.id)
           /\ reply'.status = 200 => IndexOf(thumbnails', reply'.id) = 0
           /\ reply'.status # 200 => thumbnails' = thumbnails
           /\ IndexOf(thumbnails, reply'.id) = 0 => thumbnails' = thumbnails
     /\ \A id \in 1..(MaxThumbnails + 1) :
          /\ OtherThumbnails(deleteThumbnail(id), id) = OtherThumbnails(thumbnails, id)
          /\ IndexOf(thumbnails, id) = 0 => deleteThumbnail(id) = thumbnails]_vars

\* Of two stored thumbnails the first was deleted: the second, the avatar
\* it names and both references it lists are still there.
C19_Witness ==
  /\ reply.op = "DELETE thumbnail"
  /\ reply.status = 200
  /\ reply.id = 1
  /\ Len(thumbnails) = 1
  /\ thumbnails[1].id = 2
  /\ getAvatarById(thumbnails[1].avatarId) # NoAvatar
  /\ \A k \in 1..Len(thumbnails[1].references) :
       IndexOf(references, thumbnails[1].references[k]) # 0

\* C20: any two storage uploads, also of the same user at the same time,
\* have different paths, every path begins with the id of its user, and no
\* upload replaces the object another upload has written.
C20_UploadsNeverCollide ==
  /\ \A k \in 1..Len(uploads) : StartsWith(uploads[k].path, uploads[k].userId \o <<"/">>)
  /\ \A j, k \in 1..Len(uploads) : j # k => uploads[j].path # uploads[k].path
  /\ \A k \in 1..Len(uploads) : ~uploads[k].overwrote

\* The sentence about the reference images of the composer the probe called.
ReferenceSentence ==
  IF probe.input.version = "route" THEN RouteTplReferences ELSE TplReferences

\* A prompt without the elements of part.
Without(prompt, part) == SelectSeq(prompt, LAMBDA e : \A k \in 1..Len(part) : e # part[k])

\* C21: the composed prompt holds the sentence about the reference images
\* exactly when the list of references it was given is not empty, and but
\* for that sentence it is the prompt composed for no references.
C21_ReferenceSentenceIffReferences ==
  probe.applied
  => /\ Includes(probe.result, ReferenceSentence) <=> Len(probe.input.references) > 0
     /\ Without(probe.result, ReferenceSentence)
          = IF probe.input.version = "route"
            THEN RouteGenerateOptimizedPrompt(probe.input.textIdea, Photo("1").url, <<>>)
            ELSE generateOptimizedPrompt(probe.input.textIdea, Photo("1").url, <<>>,
                                         probe.input.additionalPrompt)

\* The composer of part_003 was given two references and a prompt with the
\* sentence came back.
C21_Witness ==
  /\ probe.applied
  /\ probe.input.version = "part_003"
  /\ Len(probe.input.references) = 2
  /\ Includes(probe.result, TplReferences)

EndsWith(s, p) == Len(s) >= Len(p) /\ SubSeq(s, Len(s) - Len(p) + 1, Len(s)) = p

\* The additional prompt of the probe is present and not blank.
AdditionalPromptGiven ==
  Truthy(probe.input.additionalPrompt) /\ Trim(probe.input.additionalPrompt) # <<>>

\* C22 as stated: the prompt ends with ' Additional instructions: ' and the
\* additional prompt exactly as it was given when that prompt is present
\* and not blank, and holds no such suffix otherwise.
C22_SuffixIsVerbatim ==
  probe.applied
  => /\ AdditionalPromptGiven
          => EndsWith(probe.result, TplAdditional \o probe.input.additionalPrompt)
     /\ ~AdditionalPromptGiven => ~Includes(probe.result, TplAdditional)

\* C22, amended: the prompt ends with ' Additional instructions: ' and the
\* additional prompt without the white space before and after it when that
\* prompt is present and not blank, and holds no such suffix otherwise.
C22_SuffixIsTrimmed ==
  probe.applied
  => /\ AdditionalPromptGiven
          => EndsWith(probe.result, TplAdditional \o Trim(probe.input.additionalPrompt))
     /\ ~AdditionalPromptGiven => ~Includes(probe.result, TplAdditional)

\* An additional prompt with white space around and inside it was appended
\* without the white space around it.
C22_Witness ==
  /\ probe.applied
  /\ probe.input.additionalPrompt = <<" ", "g", " ", "o", "\n">>
  /\ EndsWith(probe.result, TplAdditional \o <<"g", " ", "o">>)

\* The owners of the stored references whose file is at url.
OwnersOfReferenceUrl(url) ==
  {references[i].userId : i \in {j \in 1..Len(references) : references[j].fileUrl = url}}

\* C23: a generation request uses assets of its session user only: the
\* provider request in flight carries no image of an avatar or a reference
\* of another user, and no thumbnail record names an avatar or a reference
\* that belongs to another user than the record's.
C23_OnlyOwnAssetsAreUsed ==
  /\ (pc = "awaitingProvider" /\ handler = "POST")
       => /\ avatar.userId = session
          /\ \A i \in 1..Len(referenceUrls) :
               \/ OwnersOfReferenceUrl(referenceUrls[i]) \subseteq {session}
               \/ calls.conversionFailed[i + (IF Truthy(avatarPhotoUrl) THEN 1 ELSE 0)]
  /\ \A t \in 1..Len(thumbnails) :
       /\ getAvatarById(thumbnails[t].avatarId).userId \in {thumbnails[t].userId, Undefined}
       /\ \A k \in 1..Len(thumbnails[t].references) :
            \A i \in 1..Len(references) :
              references[i].id = thumbnails[t].references[k]
              => references[i].userId = thumbnails[t].userId

\* C24: an avatar update that is answered with 400 leaves the avatar as it
\* was: no photo file is gone and the avatar rows are not modified.
C24_RejectedUpdateChangesNothing ==
  [][(reply'.op = "PUT avatar" /\ reply'.status = 400)
     => UNCHANGED <<avatars, files>>]_vars

\* The photos of the avatar that carry the id.
PhotosWithId(av, id) == {i \in 1..Len(av.photos) : av.photos[i].id = id}

\* C25: the photo used for generation is the one with the requested id when
\* an id is given, with or without an index; the one at the requested index
\* when only a numeric index is given, 0 included; the first photo when
\* neither is given.
C25_PhotoByIdThenIndexThenFirst ==
  (handler = "POST" /\ avatar # NoAvatar) =>
    /\ (Truthy(body.avatarPhotoId) /\ PhotosWithId(avatar, body.avatarPhotoId) # {})
         => \E i \in PhotosWithId(avatar, body.avatarPhotoId) :
              avatarPhotoUrl = avatar.photos[i].url
    /\ (body.avatarPhotoId = Undefined /\ body.avatarPhotoIndex.isNumber
          /\ body.avatarPhotoIndex.value \in 0..(Len(avatar.photos) - 1))
         => avatarPhotoUrl = avatar.photos[body.avatarPhotoIndex.value + 1].url
    /\ (body.avatarPhotoId = Undefined /\ ~body.avatarPhotoIndex.isNumber
          /\ Len(avatar.photos) > 0)
         => avatarPhotoUrl = avatar.photos[1].url

\* A request with the id of the second photo and the index of the first has
\* selected a photo.
C25_Witness ==
  /\ handler = "POST" /\ avatar # NoAvatar
  /\ body.avatarPhotoId = <<"p", "2">>
  /\ body.avatarPhotoIndex = Number(0)
  /\ avatarPhotoUrl = avatar.photos[2].url

\* The photos of old that are still in new are the first photos of new, in
\* the order they had, and the photos after them were not in old.
KeepsOrderAndAppends(old, new) ==
  LET Elems(q) == {q[i] : i \in 1..Len(q)}
      kept == SelectSeq(old, LAMBDA ph : ph \in Elems(new))
  IN  /\ Len(kept) <= Len(new)
      /\ SubSeq(new, 1, Len(kept)) = kept
      /\ \A i \in (Len(kept) + 1)..Len(new) : new[i] \notin Elems(old)

C27_WaitGrowsWithAttempt ==
  /\ \A n \in 1..Len(upload.waits) : n \in {1, 2} /\ upload.waits[n] = n * 1000
  /\ pc = "uploading" => Len(upload.waits) = upload.attempt - 1
  /\ (upload.threw /\ upload.attempt = 3) => upload.waits = <<1000, 2000>>

\* Three attempts have failed and the function has thrown.
C27_Witness ==
  /\ upload.threw /\ upload.attempt = 3 /\ calls.storageUpload = 3
  /\ Len(upload.waits) = 2

\* C28: a success response of POST /api/generate carries a thumbnailUrl that
\* begins with 'http' or 'data:image'; when the upload succeeded it is the
\* public storage URL of the upload, and it is the provider's URL only when
\* no upload succeeded.
C28_SuccessCarriesStorageUrl ==
  (pc = "done" /\ response.success) =>
    /\ \/ StartsWith(response.thumbnailUrl, HttpPrefix)
       \/ StartsWith(response.thumbnailUrl, DataImagePrefix)
    /\ UploadSucceeded => response.thumbnailUrl = upload.url
    /\ ~UploadSucceeded => response.thumbnailUrl = thumbnailUrl

\* The reference images in the content of the provider request in flight:
\* the entries after the text and the avatar photo.
ReferenceImagesInRequest ==
  Len(content) - (IF Truthy(avatarPhotoUrl) THEN 2 ELSE 1)

\* C29: when the provider request of a run carries no reference image,
\* because every reference id is stale or none could be attached, its prompt
\* is the prompt composed for no references.
C29_ReferenceSentenceOnlyWithImages ==
  (handler = "POST" /\ pc = "awaitingProvider" /\ ReferenceImagesInRequest = 0)
    => /\ ~Includes(optimizedPrompt, TplReferences)
       /\ optimizedPrompt = generateOptimizedPrompt(body.textIdea, avatarPhotoUrl, <<>>,
                                                    body.additionalPrompt)

\* The registrations other than k that carry the email of k, compared in
\* lower case.
SameEmail(k) ==
  {j \in 1..Len(registrations) :
     j # k /\ toLowerCase(registrations[j].email) = toLowerCase(registrations[k].email)}

\* C30: whatever the interleaving of the registration requests, no two stored
\* users have the same email compared without case, and of the requests with
\* one email at most one creates a user, the others being answered 409.
C30_EmailsStayUnique ==
  /\ \A i, j \in 1..Len(users) :
       i # j => toLowerCase(users[i].email) # toLowerCase(users[j].email)
  /\ \A k \in 1..Len(registrations) :
       registrations[k].status = 201
         => \A j \in SameEmail(k) :
              registrations[j].pc = "done" => registrations[j].status \in {400, 409, 500}

\* The module of src/unnamed/part_008 keeps the emails unique.
InMemoryModuleKeepsEmailsUnique ==
  (\A k \in 1..Len(registrations) : registrations[k].dbModule = "part_008")
    => C30_EmailsStayUnique

====
